---- MODULE Spec2Model ----
(***************************************************************************)
(* ComboCode: the parameter store (modeling/objects/Star.py, class Star,   *)
(* a dict whose item access derives missing values through calc* rules)    *)
(* and the transition objects with their merge (modeling/objects/          *)
(* Transition.py, class Transition and checkUniqueness).                   *)
(*                                                                         *)
(* Python values are tagged tuples: <<"n",i>> a number, <<"s",x>> a string,*)
(* <<"f",name,args>> the numeric result of the arithmetic expression name  *)
(* applied to args (floating point is not interpreted), <<"p",name,args>>  *)
(* a file name built from args, <<"l",seq>> a list of strings,             *)
(* <<"None">> None.  A store is a function from Names to a value or Absent.*)
(* A call is evaluated on a machine record m = [st, exc, val, log, env]:   *)
(* the store, the pending exception, the returned value, the rule          *)
(* invocations so far and the state of the external files during the call. *)
(***************************************************************************)
EXTENDS Integers, Sequences, FiniteSets, TLC

\* ------------------------------------------------------------------ bounds
MaxOps == 2
MaxDepth == 5

\* ------------------------------------------------------------------ values
N(i) == <<"n", i>>
S(x) == <<"s", x>>
F(name, args) == <<"f", name, args>>
P(name, args) == <<"p", name, args>>
L(seq) == <<"l", seq>>
NoneV == <<"None">>
Absent == <<"absent">>
Marker == S("%")

IsNum(v) == v[1] \in {"n", "f"}
Truthy(v) == ~(v = N(0) \/ v = S("") \/ v = NoneV \/ v = L(<<>>))

NoExc == <<"ok">>
KeyError(k) == <<"KeyError", k>>
IOError == <<"IOError">>
ValueError == <<"ValueError">>
TypeError == <<"TypeError">>
RuntimeError == <<"RuntimeError">>

\* ------------------------------------------------------------------ names
species_list == <<"AMC", "SIL">>
SpeciesSet == {species_list[i] : i \in 1..Len(species_list)}
Prefixed(p) == {p \o s : s \in SpeciesSet}

TLRNames == {"T_STAR", "L_STAR", "R_STAR"}
ClassAttrNames == {"A_K", "V_LSR", "STAR_NAME_PLOTS", "STAR_NAME_GASTRONOOM",
                   "LONG", "LAT"}
LeafNames ==
    {"R_OUTER_DUST_AU", "R_OUTER_MULTIPLY", "R_INNER_DUST_AU", "NRAD",
     "NTHETA", "MDOT_DUST", "DENSPOW", "DENSSIGMA_0", "T_CONTACT",
     "POWER_T_DUST"}
    \cup Prefixed("A_") \cup Prefixed("T_MAX_") \cup Prefixed("T_MIN_")
\* the names with a method calc<name>
CalcNames ==
    {"STAR_INDEX", "STAR_NAME", "DATA_MOL", "N_QUAD", "R_SHELL_UNIT",
     "R_OUTER_DUST", "R_INNER_DUST", "R_INNER_DUST_MODE", "LAST_MCMAX_MODEL",
     "LAST_GASTRONOOM_MODEL", "DENSTYPE", "DENSFILE", "M_DUST", "DUST_LIST",
     "SPEC_DENS_DUST", "R_OUTER_EFFECTIVE", "DUST_TO_GAS_ITERATED"}
Names ==
    TLRNames \cup ClassAttrNames \cup CalcNames \cup LeafNames
    \cup Prefixed("R_MAX_") \cup Prefixed("R_DES_") \cup Prefixed("T_DES_")
    \cup Prefixed("T_DESA_") \cup Prefixed("T_DESB_")

\* A machine m is the store m.st, the exception in flight m.exc, the value
\* of the last expression m.val, the rules entered m.log and the files
\* outside m.env.  A statement reached with an exception in flight is not
\* executed: every operator below leaves such a machine as it is.
ok(m) == m.exc = NoExc
raise(m, e) == IF m.exc = NoExc THEN [m EXCEPT !.exc = e] ELSE m
ret(m, v) == IF m.exc = NoExc THEN [m EXCEPT !.val = v] ELSE m
has_key(m, k) == m.st[k] # Absent
\* a store that keeps the entry it has
setitemIfAbsent(m, k, v) ==
    IF m.exc = NoExc /\ m.st[k] = Absent THEN [m EXCEPT !.st[k] = v] ELSE m
setitem(m, k, v) == IF m.exc = NoExc THEN [m EXCEPT !.st[k] = v] ELSE m
\* self[k] = f(the values just read)
assign(m, k, f) == setitem(m, k, F(f, m.val))
delitem(m, k) ==
    IF m.exc # NoExc THEN m
    ELSE IF has_key(m, k) THEN [m EXCEPT !.st[k] = Absent]
    ELSE raise(m, KeyError(k))
dict_getitem(m, k) ==
    IF m.exc # NoExc THEN m
    ELSE IF has_key(m, k) THEN ret(m, m.st[k])
    ELSE raise(m, KeyError(k))
enter(m, rule) ==
    IF m.exc = NoExc THEN [m EXCEPT !.log = Append(@, rule)] ELSE m
\* the exception in flight is caught
caught(m) == [m EXCEPT !.exc = NoExc]


\* --------------------------------------------------- external collaborators
\* Data/Star.dat (keyword STAR_NAME), Data/Dust.dat (per species: is a
\* pressure dependent T_DESA given) and the state of the files outside the
\* program: env.mcmax (MCMax denstemp*.dat readable), env.gastronoom
\* (GASTRoNOoM coolfgr file readable), env.cache (the file a rule would
\* write is there already: os.path.isfile), env.write (DataIO.writeCols
\* succeeds), env.rmax (where T_MIN falls in the MCMax temperature profile).
StarDat == <<"rdor", "wxpsc">>
DustDatHasTdesa == [s \in SpeciesSet |-> s = "SIL"]
Envs ==
    {[mcmax |-> FALSE, gastronoom |-> FALSE, cache |-> FALSE, write |-> FALSE,
      rmax |-> "found"],
     [mcmax |-> TRUE, gastronoom |-> TRUE, cache |-> FALSE, write |-> TRUE,
      rmax |-> "found"],
     [mcmax |-> TRUE, gastronoom |-> TRUE, cache |-> FALSE, write |-> FALSE,
      rmax |-> "alldust"],
     [mcmax |-> TRUE, gastronoom |-> FALSE, cache |-> TRUE, write |-> TRUE,
      rmax |-> "nodust"],
     [mcmax |-> TRUE, gastronoom |-> FALSE, cache |-> FALSE, write |-> TRUE,
      rmax |-> "debug"]}
IndexOf(seq, x) == (CHOOSE i \in 1..Len(seq) : seq[i] = x) - 1
InSeq(seq, x) == \E i \in 1..Len(seq) : seq[i] = x

\* float(v), int(v) (c = "float"), an operand of * or / or of a %f format
\* (c = "arith"), a component of os.path.join (c = "path"), an operand of
\* str + or an item of str.join (c = "str"), or the value as it is
\* (c = "raw")
conv(m, v, c) ==
    IF m.exc # NoExc THEN m
    ELSE IF c = "raw" THEN ret(m, v)
    ELSE IF c \in {"path", "str"} THEN
        IF v[1] \in {"s", "p"} THEN ret(m, v)
        ELSE IF c = "path" THEN raise(m, <<"AttributeError">>)
        ELSE raise(m, TypeError)
    ELSE IF IsNum(v) THEN ret(m, v)
    ELSE IF c = "float" /\ v[1] = "s" THEN raise(m, ValueError)
    ELSE raise(m, TypeError)

RECURSIVE getitem(_, _, _)
RECURSIVE gets(_, _, _)
RECURSIVE callRule(_, _, _)
RECURSIVE removeMutableMCMax(_, _, _, _, _)

\* self[k1], self[k2], ... evaluated left to right, each converted as asked;
\* ks is a sequence of <<key, conversion>>, acc the values read so far
RECURSIVE getsFrom(_, _, _, _)
getsFrom(m, ks, acc, d) ==
    IF ks = <<>> THEN ret(m, acc)
    ELSE LET rest(h) == getsFrom(h, Tail(ks), Append(acc, h.val), d)
             converted(g) ==
                 IF ~ok(g) THEN g ELSE rest(conv(g, g.val, ks[1][2]))
         IN  converted(getitem(m, ks[1][1], d))

gets(m, ks, d) == getsFrom(m, ks, <<>>, d)

\* a rule of the shape  if not has_key(k): self[k] = literal
calcDefault(m0, k, v) ==
    LET m == enter(m0, "calc" \o k)
    IN  IF ~has_key(m, k) THEN setitem(m, k, v) ELSE m

\* a calcTLR that leaves the store alone when fewer than two of the three
\* are present: the read of the missing name then ends in KeyError
calcTLRChecked(m0, d) ==
    LET m == enter(m0, "calcTLR") IN
    IF Cardinality({k \in TLRNames : has_key(m, k)}) < 2 THEN m
    ELSE IF ~has_key(m, "T_STAR") THEN
        assign(gets(m, <<<<"L_STAR", "float">>, <<"R_STAR", "float">>>>, d),
               "T_STAR", "T(L,R)")
    ELSE IF ~has_key(m, "L_STAR") THEN
        assign(gets(m, <<<<"R_STAR", "float">>, <<"T_STAR", "float">>>>, d),
               "L_STAR", "L(R,T)")
    ELSE IF ~has_key(m, "R_STAR") THEN
        assign(gets(m, <<<<"L_STAR", "float">>, <<"T_STAR", "float">>>>, d),
               "R_STAR", "R(L,T)")
    ELSE m

\* a calcTLR that solves for T_STAR again when all three are present
calcTLRAgain(m0, d) ==
    LET m == enter(m0, "calcTLR") IN
    IF ~has_key(m, "L_STAR") THEN
        assign(gets(m, <<<<"R_STAR", "float">>, <<"T_STAR", "float">>>>, d),
               "L_STAR", "L(R,T)")
    ELSE IF ~has_key(m, "R_STAR") THEN
        assign(gets(m, <<<<"L_STAR", "float">>, <<"T_STAR", "float">>>>, d),
               "R_STAR", "R(L,T)")
    ELSE assign(gets(m, <<<<"L_STAR", "float">>, <<"R_STAR", "float">>>>, d),
                "T_STAR", "T(L,R)")

calcTLR(m0, d) ==
    LET m == enter(m0, "calcTLR") IN
    IF ~has_key(m, "T_STAR") THEN
        assign(gets(m, <<<<"L_STAR", "float">>, <<"R_STAR", "float">>>>, d),
               "T_STAR", "T(L,R)")
    ELSE IF ~has_key(m, "L_STAR") THEN
        assign(gets(m, <<<<"R_STAR", "float">>, <<"T_STAR", "float">>>>, d),
               "L_STAR", "L(R,T)")
    ELSE IF ~has_key(m, "R_STAR") THEN
        assign(gets(m, <<<<"L_STAR", "float">>, <<"T_STAR", "float">>>>, d),
               "R_STAR", "R(L,T)")
    ELSE m

calcSTAR_NAME(m) == calcDefault(m, "STAR_NAME", S("model"))
calcDATA_MOL(m) == calcDefault(m, "DATA_MOL", N(0))

\* "except KeyError,ValueError" catches KeyError alone (Python 2 binds the
\* caught KeyError to the name ValueError): list.index's ValueError escapes
calcSTAR_INDEX(m0, d) ==
    LET m == enter(m0, "calcSTAR_INDEX")
        lookup(g) ==
            IF ~ok(g) THEN g
            ELSE IF g.val[1] = "s" /\ InSeq(StarDat, g.val[2])
                 THEN setitem(g, "STAR_INDEX", N(IndexOf(StarDat, g.val[2])))
                 ELSE raise(g, ValueError)
        exceptKeyError(r) ==
            IF r.exc[1] = "KeyError"
            THEN setitem(setitem(caught(r), "STAR_INDEX", N(-1)),
                         "DATA_MOL", N(0))
            ELSE r
    IN  exceptKeyError(lookup(getitem(m, "STAR_NAME", d)))

\* DataIO.getInputData(keyword=missing_key)[self['STAR_INDEX']]
getClassAttr(m0, missing_key, d) ==
    LET m == enter(m0, "getClassAttr")
        lookup(g) ==
            IF ~ok(g) THEN g
            ELSE IF g.val[1] # "n" THEN raise(g, TypeError)
            ELSE IF g.val[2] >= Len(StarDat) \/ g.val[2] < -Len(StarDat)
                 THEN raise(g, <<"IndexError">>)
            ELSE setitem(g, missing_key,
                         F("Star.dat", <<S(missing_key),
                                         N(g.val[2] % Len(StarDat))>>))
    IN  IF ~has_key(m, missing_key)
        THEN lookup(getitem(m, "STAR_INDEX", d))
        ELSE m

calcN_QUAD(m) == calcDefault(m, "N_QUAD", N(100))
calcR_SHELL_UNIT(m) == calcDefault(m, "R_SHELL_UNIT", S("R_STAR"))
calcLAST_MCMAX_MODEL(m) == calcDefault(m, "LAST_MCMAX_MODEL", S(""))
calcR_INNER_DUST_MODE(m) == calcDefault(m, "R_INNER_DUST_MODE", S("ABSOLUTE"))

\* reads self['LAST_MCMAX_MODEL'], then the file: IOError when unreadable
getMCMaxOutput(m, keyword, d) ==
    LET readFile(g) ==
            IF ~ok(g) THEN g
            ELSE IF ~g.env.mcmax THEN raise(g, IOError)
            ELSE ret(g, F("mcmax", <<S(keyword), g.val[1]>>))
    IN  readFile(gets(m, <<<<"LAST_MCMAX_MODEL", "path">>>>, d))

calcR_OUTER_DUST(m0, d) ==
    LET m == enter(m0, "calcR_OUTER_DUST")
        multiply(g) ==
            IF ok(g) /\ ~(IsNum(g.val[1]) /\ IsNum(g.val[2]))
            THEN raise(g, TypeError)
            ELSE assign(g, "R_OUTER_DUST", "mul")
    IN
    IF ~has_key(m, "R_OUTER_DUST") THEN
        IF has_key(m, "R_OUTER_DUST_AU") THEN
            assign(gets(m, <<<<"R_OUTER_DUST_AU", "arith">>,
                             <<"R_STAR", "arith">>>>, d),
                   "R_OUTER_DUST", "AU_to_Rstar")
        ELSE IF has_key(m, "R_OUTER_MULTIPLY") THEN
            multiply(gets(m, <<<<"R_INNER_DUST", "raw">>,
                               <<"R_OUTER_MULTIPLY", "raw">>>>, d))
        ELSE m
    ELSE m

calcR_INNER_DUST(m0, d) ==
    LET m == enter(m0, "calcR_INNER_DUST")
        keep(g7, mode) ==
            IF ~ok(g7) THEN g7
            ELSE setitem(g7, "R_INNER_DUST", F("ri_cm", <<mode, g7.val[1]>>))
        \* g5 holds NTHETA and R_INNER_DUST_MODE; a second read of
        \* R_INNER_DUST_MODE unless it is 'MAX'
        fromMode(g5) ==
            IF ~ok(g5) THEN g5
            ELSE keep(gets(IF g5.val[2] # S("MAX")
                            THEN gets(g5, <<<<"R_INNER_DUST_MODE", "raw">>>>, d)
                            ELSE g5,
                            <<<<"R_STAR", "float">>>>, d),
                       g5.val[2])
        exceptIOError(r) ==
            IF r.exc = IOError THEN setitem(caught(r), "R_INNER_DUST", N(1))
            ELSE r
    IN
    IF ~has_key(m, "R_INNER_DUST") THEN
        IF has_key(m, "R_INNER_DUST_AU") THEN
            assign(gets(m, <<<<"R_INNER_DUST_AU", "arith">>,
                             <<"R_STAR", "arith">>>>, d),
                   "R_INNER_DUST", "AU_to_Rstar")
        ELSE
            LET g1 == gets(m, <<<<"NRAD", "float">>, <<"NTHETA", "float">>>>, d)
                g2 == getMCMaxOutput(g1, "DENSITY", d)
                g3 == gets(g2, <<<<"NRAD", "float">>>>, d)
                g4 == getMCMaxOutput(g3, "RADIUS", d)
                g5 == gets(g4, <<<<"NTHETA", "raw">>,
                                 <<"R_INNER_DUST_MODE", "raw">>>>, d)
            IN  exceptIOError(fromMode(g5))
    ELSE m


calcLAST_GASTRONOOM_MODEL(m) == calcDefault(m, "LAST_GASTRONOOM_MODEL", S(""))

\* DataIO.getGastronoomOutput on coolfgr_all<id>.dat, the file name built
\* from two reads of LAST_GASTRONOOM_MODEL: os.path.join(.., id,
\* 'coolfgr_all%s.dat' % id) in calcDENSTYPE (c = "raw") and
\* os.path.join(.., id, 'coolfgr_all' + id + '.dat') in getAverageDrift
\* (c = "str")
getGastronoomOutput(m, keyword, c, d) ==
    LET join(g) == IF ~ok(g) THEN g ELSE conv(g, g.val[1], "path")
        readFile(j) ==
            IF ~ok(j) THEN j
            ELSE IF ~j.env.gastronoom THEN raise(j, IOError)
            ELSE ret(j, F("coolfgr", <<S(keyword), j.val>>))
    IN  readFile(join(gets(m, <<<<"LAST_GASTRONOOM_MODEL", "raw">>,
                                 <<"LAST_GASTRONOOM_MODEL", c>>>>, d)))

getAverageDrift(m, d) == getGastronoomOutput(m, "VDRIFT", "str", d)

\* the name of input<id>.dat of the last GASTRoNOoM model, built from two
\* reads of LAST_GASTRONOOM_MODEL: os.path.join(.., id, 'input%s.dat' % id)
inputFilename(m, d) ==
    LET join(g) == IF ~ok(g) THEN g ELSE conv(g, g.val[1], "path")
    IN  join(gets(m, <<<<"LAST_GASTRONOOM_MODEL", "raw">>,
                        <<"LAST_GASTRONOOM_MODEL", "raw">>>>, d))

\* the file name is built first; DataIO.readFile is not inside a try
calcR_OUTER_EFFECTIVE(m0, d) ==
    LET readFile(j) ==
            IF ~ok(j) \/ has_key(j, "R_OUTER_EFFECTIVE") THEN j
            ELSE IF ~j.env.gastronoom THEN raise(j, IOError)
            ELSE setitem(j, "R_OUTER_EFFECTIVE", F("input", <<N(4), j.val>>))
    IN  readFile(inputFilename(enter(m0, "calcR_OUTER_EFFECTIVE"), d))

calcDUST_TO_GAS_ITERATED(m0, d) ==
    LET m == enter(m0, "calcDUST_TO_GAS_ITERATED")
        readFile(j) ==
            IF ~ok(j) THEN j
            ELSE IF ~j.env.gastronoom THEN raise(j, IOError)
            ELSE setitem(j, "DUST_TO_GAS_ITERATED", F("input", <<N(6), j.val>>))
        exceptIOError(t) ==
            IF t.exc = IOError
            THEN setitem(caught(t), "DUST_TO_GAS_ITERATED", NoneV)
            ELSE t
    IN  IF ~has_key(m, "DUST_TO_GAS_ITERATED")
        THEN exceptIOError(readFile(inputFilename(m, d)))
        ELSE m

calcDENSTYPE(m0, d) ==
    LET m == enter(m0, "calcDENSTYPE")
        \* '_'.join(['dens', id, 'mdotd%.2e.dat' % mdot]); g.val keeps both
        joined(g0) ==
            IF ~ok(g0) THEN g0 ELSE ret(conv(g0, g0.val[1], "str"), g0.val)
        massloss(t) ==
            IF ok(t) /\ t.val = S("MASSLOSS") THEN raise(t, IOError) ELSE t
        writeCols(t) == IF ok(t) /\ ~t.env.write THEN raise(t, IOError) ELSE t
        exceptIOError(t) ==
            IF t.exc = IOError
            THEN setitem(setitem(caught(t), "DENSTYPE", S("MASSLOSS")),
                         "DENSFILE", S(""))
            ELSE t
        make(g, filename) ==
            LET t1 == IF has_key(g, "DENSTYPE")
                      THEN massloss(getitem(g, "DENSTYPE", d))
                      ELSE g
                t2 == getGastronoomOutput(t1, "RADIUS", "raw", d)
                t3 == getAverageDrift(t2, d)
                t4 == setitem(t3, "DENSTYPE", S("SHELLFILE"))
                t5 == gets(t4, <<<<"MDOT_DUST", "float">>>>, d)
                t6 == setitem(t5, "DENSFILE", filename)
            IN  exceptIOError(writeCols(t6))
        isfile(g, filename) ==
            IF ~ok(g) THEN g
            ELSE IF g.env.cache
            THEN setitem(setitem(g, "DENSFILE", filename),
                         "DENSTYPE", S("SHELLFILE"))
            ELSE make(g, filename)
        named(g) == isfile(g, P("dens", g.val))
    IN
    IF ~has_key(m, "DENSTYPE") \/ ~has_key(m, "DENSFILE") THEN
        named(joined(gets(m, <<<<"LAST_GASTRONOOM_MODEL", "raw">>,
                                <<"MDOT_DUST", "arith">>>>, d)))
    ELSE m

calcDENSFILE(m, d) == calcDENSTYPE(enter(m, "calcDENSFILE"), d)

calcM_DUST(m0, d) ==
    LET m == enter(m0, "calcM_DUST")
        power(p) ==
            IF ~ok(p) THEN p
            ELSE IF p.val = N(2) THEN
                assign(gets(p, <<<<"DENSSIGMA_0", "arith">>,
                                 <<"R_INNER_DUST", "arith">>,
                                 <<"R_STAR", "arith">>,
                                 <<"R_OUTER_DUST", "arith">>,
                                 <<"R_INNER_DUST", "float">>>>, d),
                       "M_DUST", "mdust_log")
            ELSE
                assign(gets(p, <<<<"DENSSIGMA_0", "arith">>,
                                 <<"R_INNER_DUST", "arith">>,
                                 <<"R_STAR", "arith">>,
                                 <<"DENSPOW", "arith">>,
                                 <<"R_OUTER_DUST", "arith">>,
                                 <<"R_INNER_DUST", "float">>,
                                 <<"DENSPOW", "arith">>>>, d),
                       "M_DUST", "mdust_pow")
        denstype(t) ==
            IF ~ok(t) THEN t
            ELSE IF t.val = S("POW") THEN power(getitem(t, "DENSPOW", d))
            ELSE t
    IN  IF ~has_key(m, "M_DUST")
        THEN denstype(getitem(m, "DENSTYPE", d))
        ELSE m

\* [x for x in seq if keep[x]] for a sequence of strings
RECURSIVE SelectStr(_, _)
SelectStr(seq, keep) ==
    IF seq = <<>> THEN <<>>
    ELSE (IF Head(seq) \in keep THEN <<Head(seq)>> ELSE <<>>)
         \o SelectStr(Tail(seq), keep)

\* the comprehension  [.. for species in lst ..]  reading self[prefix+species]
\* for each species of lst that is in species_list
getsEach(m, prefix, lst, c, d) ==
    gets(m, [i \in 1..Len(lst) |-> <<prefix \o lst[i], c>>], d)

calcSPEC_DENS_DUST(m0, d) ==
    LET m == enter(m0, "calcSPEC_DENS_DUST")
        abundances(l) ==
            IF ~ok(l) THEN l
            ELSE IF l.val[1] # "l" THEN raise(l, TypeError)
            ELSE assign(getsEach(l, "A_", SelectStr(l.val[2], SpeciesSet),
                                 "float", d),
                        "SPEC_DENS_DUST", "spec_dens")
    IN  IF ~has_key(m, "SPEC_DENS_DUST")
        THEN abundances(getitem(m, "DUST_LIST", d))
        ELSE m

\* the first assignment stores the species that have an abundance, the
\* second keeps those whose abundance is not 0; the prints read DUST_LIST
\* and SPEC_DENS_DUST
calcDUST_LIST(m0, d) ==
    LET m == enter(m0, "calcDUST_LIST")
        first == SelectStr(species_list,
                           {s \in SpeciesSet : has_key(m, "A_" \o s)})
        nonzero(g, lst) ==
            IF ~ok(g) THEN g
            ELSE setitem(g, "DUST_LIST",
                    L(SelectStr(lst,
                        {lst[i] : i \in
                            {j \in 1..Len(lst) : g.val[j] # N(0)}})))
        second(l) ==
            IF ~ok(l) THEN l
            ELSE IF l.val[1] # "l" THEN raise(l, TypeError)
            ELSE nonzero(getsEach(l, "A_", l.val[2], "float", d), l.val[2])
    IN
    IF ~has_key(m, "DUST_LIST") THEN
        LET m1 == setitem(m, "DUST_LIST", L(first))
            m2 == second(getitem(m1, "DUST_LIST", d))
            m3 == getitem(m2, "DUST_LIST", d)
        IN  gets(m3, <<<<"SPEC_DENS_DUST", "arith">>>>, d)
    ELSE m


calcT_DES(m0, species, d) ==
    LET m == enter(m0, "calcT_DES")
        A == "T_DESA_" \o species
        B == "T_DESB_" \o species
        X == "T_MAX_" \o species
        falsy(g) == IF ok(g) /\ ~Truthy(g.val) THEN delitem(g, X) ELSE g
        exceptKeyError(r) ==
            IF r.exc[1] = "KeyError" THEN
                IF DustDatHasTdesa[species]
                THEN setitem(setitem(caught(r), A,
                                     F("Dust.dat:1e4*T_DESB/T_DESA",
                                       <<S(species)>>)),
                             B, F("Dust.dat:1e4/T_DESA", <<S(species)>>))
                ELSE setitem(setitem(caught(r), A,
                                     F("Dust.dat:1e4/T_DES", <<S(species)>>)),
                             B, F("1e-4", <<>>))
            ELSE r
    IN
    IF ~has_key(m, A) \/ ~has_key(m, B) THEN
        LET g1 == falsy(getitem(m, X, d))
            g2 == gets(g1, <<<<X, "arith">>>>, d)
        IN  exceptKeyError(setitem(assign(g2, A, "1e4/T_MAX"),
                                   B, F("1e-4", <<>>)))
    ELSE m

\* the body of  for species in self['DUST_LIST']  of checkT; the values
\* come from ColumnDensity(self)
RECURSIVE checkTSetLoop(_, _, _)
checkTSetLoop(m, lst, d) ==
    IF lst = <<>> \/ ~ok(m) THEN m
    ELSE LET s  == Head(lst)
             rdes(g) ==
                 IF ~ok(g) THEN g
                 ELSE setitem(g, "R_DES_" \o s,
                              F("coldens.r_des", <<S(s), g.val[1]>>))
             m1 == setitem(m, "T_DES_" \o s, F("coldens.t_des", <<S(s)>>))
             m2 == rdes(gets(m1, <<<<"R_STAR", "arith">>>>, d))
             m3 == gets(m2, <<<<"T_DES_" \o s, "arith">>,
                              <<"R_DES_" \o s, "arith">>>>, d)
         IN  checkTSetLoop(m3, Tail(lst), d)

\* the prints of  for species in species_list_min
RECURSIVE checkTPrintLoop(_, _, _)
checkTPrintLoop(m, lst, d) ==
    IF lst = <<>> \/ ~ok(m) THEN m
    ELSE LET s  == Head(lst)
             getsIfGiven(g, k) ==
                 IF has_key(g, k) THEN gets(g, <<<<k, "arith">>>>, d) ELSE g
             m1 == gets(m, <<<<"R_STAR", "arith">>>>, d)
             m2 == getsIfGiven(m1, "T_MIN_" \o s)
             m3 == getsIfGiven(m2, "R_MAX_" \o s)
             m4 == gets(m3, <<<<"R_STAR", "arith">>>>, d)
         IN  checkTPrintLoop(m4, Tail(lst), d)

checkT(m0, d) ==
    LET m == enter(m0, "checkT")
        setLoop(l) ==
            IF ~ok(l) THEN l
            ELSE IF l.val[1] # "l" THEN raise(l, TypeError)
            ELSE checkTSetLoop(l, l.val[2], d)
        species_list_min(a) ==
            SelectStr(species_list,
                      {s \in SpeciesSet : has_key(a, "T_MIN_" \o s)
                                          \/ has_key(a, "R_MAX_" \o s)})
        printLoop(a) == checkTPrintLoop(a, species_list_min(a), d)
    IN  printLoop(setLoop(getitem(m, "DUST_LIST", d)))

calcR_MAX(m0, missing_key, d) ==
    LET m == enter(m0, "calcR_MAX")
        species == CHOOSE s \in SpeciesSet : missing_key = "R_MAX_" \o s
        inDustList(l) ==
            IF ~ok(l) THEN l
            ELSE IF l.val[1] # "l" THEN raise(l, TypeError)
            ELSE IF ~InSeq(l.val[2], species) THEN raise(l, ValueError)
            ELSE l
        contact(c) ==
            IF ok(c) /\ c.val[1] = N(0)
            THEN inDustList(getitem(c, "DUST_LIST", d))
            ELSE c
        linInterpol(g, tmin) ==
            IF ~ok(g) THEN g
            ELSE ret(g, F("linInterpol", <<tmin, g.val[1]>>))
        radius(r5, tmin) ==
            IF ~ok(r5) THEN r5
            ELSE IF r5.env.rmax = "found"
                 THEN linInterpol(gets(r5, <<<<"R_STAR", "arith">>>>, d), tmin)
            ELSE IF r5.env.rmax = "nodust" THEN getitem(r5, "R_STAR", d)
            ELSE IF r5.env.rmax = "alldust" THEN raise(r5, KeyError(""))
            ELSE raise(r5, <<"UnboundLocalError">>)
        keep(r6) == IF ~ok(r6) THEN r6 ELSE setitem(r6, missing_key, r6.val)
        powerRfromT(g, tmin) ==
            IF ~ok(g) THEN g
            ELSE setitem(g, missing_key,
                         F("powerRfromT/2", <<tmin, g.val[1], g.val[2]>>))
        exceptIOError(r7, tmin) ==
            IF r7.exc = IOError
            THEN powerRfromT(gets(caught(r7), <<<<"T_STAR", "float">>,
                                                <<"POWER_T_DUST", "float">>>>,
                                  d),
                             tmin)
            ELSE r7
        exceptKeyError(r8) ==
            IF r8.exc[1] = "KeyError"
            THEN setitem(caught(r8), missing_key, S(""))
            ELSE r8
        try(t) ==
            LET c  == contact(gets(t, <<<<"T_CONTACT", "float">>>>, d))
                r1 == gets(c, <<<<"NRAD", "float">>>>, d)
                r2 == getMCMaxOutput(r1, "RADIUS", d)
                r3 == gets(r2, <<<<"NRAD", "float">>,
                                 <<"NTHETA", "float">>>>, d)
                r4 == getMCMaxOutput(r3, "TEMPERATURE", d)
                r5 == gets(r4, <<<<"NTHETA", "raw">>>>, d)
            IN  exceptKeyError(
                    exceptIOError(keep(radius(r5, t.val[1])), t.val[1]))
    IN
    IF ~has_key(m, missing_key)
    THEN try(gets(m, <<<<"T_MIN_" \o species, "float">>>>, d))
    ELSE m

shell_units == <<"CM", "M", "KM", "AU">>
\* the radii convertRadialUnit rescales, in its order
RadialPars == <<"R_INNER_DUST", "R_OUTER_DUST">>
              \o [i \in 1..Len(species_list) |-> "R_MAX_" \o species_list[i]]

\* the loop of Star.convertRadialUnit over the radii
RECURSIVE convertLoop(_, _, _, _)
convertLoop(m, pars, factor, d) ==
    IF pars = <<>> \/ ~ok(m) THEN m
    ELSE LET par == Head(pars)
             scaled(g) ==
                 IF ~ok(g) THEN g
                 ELSE setitem(g, par, F("convert", <<g.val[1], factor>>))
             m1 == IF has_key(m, par)
                   THEN scaled(gets(m, <<<<par, "arith">>>>, d))
                   ELSE m
         IN  convertLoop(m1, Tail(pars), factor, d)

convertRadialUnit(m, d) ==
    LET known(u2) ==
            IF ~ok(u2) THEN u2
            ELSE IF u2.val[1] # "s" THEN raise(u2, <<"AttributeError">>)
            ELSE IF ~InSeq(shell_units, u2.val[2]) THEN raise(u2, ValueError)
            ELSE u2
        rescale(r, unit) ==
            IF ~ok(r) THEN r
            ELSE convertLoop(r, RadialPars,
                             F("unit", <<unit, r.val[IndexOf(shell_units,
                                                       unit[2]) + 1]>>), d)
        unitFactor(u2) ==
            rescale(gets(known(u2),
                         <<<<"R_STAR", "arith">>, <<"R_STAR", "arith">>,
                           <<"R_STAR", "arith">>, <<"R_STAR", "arith">>>>, d),
                    u2.val)
        differs(u) ==
            IF ~ok(u) THEN u
            ELSE IF u.val # S("R_STAR")
                 THEN unitFactor(getitem(u, "R_SHELL_UNIT", d))
            ELSE u
    IN  differs(getitem(m, "R_SHELL_UNIT", d))

\* getattr(self, 'calc' + missing_key)()
callCalc(m, key, d) ==
    CASE key = "STAR_INDEX"            -> calcSTAR_INDEX(m, d)
      [] key = "STAR_NAME"             -> calcSTAR_NAME(m)
      [] key = "DATA_MOL"              -> calcDATA_MOL(m)
      [] key = "N_QUAD"                -> calcN_QUAD(m)
      [] key = "R_SHELL_UNIT"          -> calcR_SHELL_UNIT(m)
      [] key = "R_OUTER_DUST"          -> calcR_OUTER_DUST(m, d)
      [] key = "R_INNER_DUST"          -> calcR_INNER_DUST(m, d)
      [] key = "R_INNER_DUST_MODE"     -> calcR_INNER_DUST_MODE(m)
      [] key = "LAST_MCMAX_MODEL"      -> calcLAST_MCMAX_MODEL(m)
      [] key = "LAST_GASTRONOOM_MODEL" -> calcLAST_GASTRONOOM_MODEL(m)
      [] key = "DENSTYPE"              -> calcDENSTYPE(m, d)
      [] key = "DENSFILE"              -> calcDENSFILE(m, d)
      [] key = "M_DUST"                -> calcM_DUST(m, d)
      [] key = "DUST_LIST"             -> calcDUST_LIST(m, d)
      [] key = "SPEC_DENS_DUST"        -> calcSPEC_DENS_DUST(m, d)
      [] key = "R_OUTER_EFFECTIVE"     -> calcR_OUTER_EFFECTIVE(m, d)
      [] key = "DUST_TO_GAS_ITERATED"  -> calcDUST_TO_GAS_ITERATED(m, d)

\* a call of a rule method, r = <<method, argument>>
callRule(m, r, d) ==
    CASE r[1] = "calcTLR"      -> calcTLR(m, d)
      [] r[1] = "checkT"       -> checkT(m, d)
      [] r[1] = "getClassAttr" -> getClassAttr(m, r[2], d)
      [] r[1] = "calcR_MAX"    -> calcR_MAX(m, r[2], d)
      [] r[1] = "calcT_DES"    -> calcT_DES(m, r[2], d)
      [] r[1] = "calc"         -> callCalc(m, r[2], d)
      [] r[1] = "convertRadialUnit" -> convertRadialUnit(m, d)
      [] r[1] = "removeMutableMCMax" ->
             removeMutableMCMax(m, r[2][1], r[2][2], r[2][3], d)

\* a dispatch without the branch of T_DESA_<species> and T_DESB_<species>
ruleForNoPressureBranch(missing_key) ==
    IF missing_key \in TLRNames THEN <<"calcTLR", "">>
    ELSE IF missing_key \in ClassAttrNames THEN <<"getClassAttr", missing_key>>
    ELSE IF missing_key \in Prefixed("R_MAX_") THEN <<"calcR_MAX", missing_key>>
    ELSE IF missing_key \in Prefixed("R_DES_") THEN <<"checkT", "">>
    ELSE IF missing_key \in Prefixed("T_DES_") THEN <<"checkT", "">>
    ELSE IF missing_key \in CalcNames THEN <<"calc", missing_key>>
    ELSE NoneV

\* the rule Star.missingInput picks for missing_key, None when it has none
ruleFor(missing_key) ==
    IF missing_key \in TLRNames THEN <<"calcTLR", "">>
    ELSE IF missing_key \in ClassAttrNames THEN <<"getClassAttr", missing_key>>
    ELSE IF missing_key \in Prefixed("R_MAX_") THEN <<"calcR_MAX", missing_key>>
    ELSE IF missing_key \in Prefixed("R_DES_") THEN <<"checkT", "">>
    ELSE IF missing_key \in Prefixed("T_DESA_") \cup Prefixed("T_DESB_")
         THEN <<"calcT_DES",
                CHOOSE s \in SpeciesSet :
                    missing_key \in {"T_DESA_" \o s, "T_DESB_" \o s}>>
    ELSE IF missing_key \in Prefixed("T_DES_") THEN <<"checkT", "">>
    ELSE IF missing_key \in CalcNames THEN <<"calc", missing_key>>
    ELSE NoneV

missingInput(m, missing_key, d) ==
    IF ruleFor(missing_key) = NoneV THEN m
    ELSE callRule(m, ruleFor(missing_key), d)

\* a __getitem__ that does not keep the value derived for an absent name
getitemForgetDerived(m, key, d) ==
    LET forget(m2) == ret(delitem(m2, key), m2.val)
        remark(m2) == ret(setitem(m2, key, Marker), m2.val)
    IN
    IF m.exc # NoExc THEN m
    ELSE IF d = 0 THEN raise(m, RuntimeError)
    ELSE IF ~has_key(m, key) THEN
        forget(dict_getitem(missingInput(m, key, d - 1), key))
    ELSE IF m.st[key] = Marker THEN
        remark(dict_getitem(missingInput(delitem(m, key), key, d - 1), key))
    ELSE dict_getitem(m, key)

\* a __getitem__ that keeps the value derived for a volatile name
getitemKeepDerived(m, key, d) ==
    IF m.exc # NoExc THEN m
    ELSE IF d = 0 THEN raise(m, RuntimeError)
    ELSE IF ~has_key(m, key) THEN
        dict_getitem(missingInput(m, key, d - 1), key)
    ELSE IF m.st[key] = Marker THEN
        dict_getitem(missingInput(delitem(m, key), key, d - 1), key)
    ELSE dict_getitem(m, key)

\* Star.__getitem__; d bounds the depth of nested item reads (the
\* interpreter's recursion limit: RuntimeError)
getitem(m, key, d) ==
    LET \* value = dict.__getitem__(key); self[key] = '%'; return value
        remark(m2) == ret(setitem(m2, key, Marker), m2.val)
    IN
    IF m.exc # NoExc THEN m
    ELSE IF d = 0 THEN raise(m, RuntimeError)
    ELSE IF ~has_key(m, key) THEN
        dict_getitem(missingInput(m, key, d - 1), key)
    ELSE IF m.st[key] = Marker THEN
        remark(dict_getitem(missingInput(delitem(m, key), key, d - 1), key))
    ELSE dict_getitem(m, key)


\* ------------------------------------------------------------------ purges
\* self.keys(): the names present, in the order of the dict (any order; the
\* ascending and the descending order of the names are taken)
RECURSIVE SeqOf(_)
SeqOf(names) ==
    IF names = {} THEN <<>>
    ELSE LET k == CHOOSE x \in names : TRUE IN <<k>> \o SeqOf(names \ {k})

Reverse(seq) == [i \in 1..Len(seq) |-> seq[Len(seq) + 1 - i]]

keys(m, order) ==
    LET present == SeqOf({k \in Names : has_key(m, k)})
    IN  IF order = "reversed" THEN Reverse(present) ELSE present

\* for .. in self['DUST_LIST']: the value read must be a list
iter(g) == IF ok(g) /\ g.val[1] # "l" THEN raise(g, TypeError) ELSE g

\* [prefix + species for species in lst]
Each(prefix, lst) == {prefix \o lst[i] : i \in 1..Len(lst)}

\* the body of the first loop of removeMutableMCMax for one key: the test
\* reads DUST_LIST three times
removeMutableMCMaxKey(m, key, mutable, var_pars, d) ==
    LET remove(g, rmax, tdes, rdes) ==
            IF ~ok(g) THEN g
            ELSE IF key \in mutable \cup Each("R_MAX_", rmax)
                            \cup Each("T_DES_", tdes)
                            \cup Each("R_DES_", rdes)
                    /\ key \notin var_pars
            THEN delitem(g, key)
            ELSE g
        third(g, rmax, tdes) ==
            IF ~ok(g) THEN g ELSE remove(g, rmax, tdes, g.val[2])
        second(g, rmax) ==
            IF ~ok(g) THEN g
            ELSE third(iter(getitem(g, "DUST_LIST", d)), rmax, g.val[2])
        first(g) ==
            IF ~ok(g) THEN g
            ELSE second(iter(getitem(g, "DUST_LIST", d)), g.val[2])
    IN  first(iter(getitem(m, "DUST_LIST", d)))

\* the first loop of removeMutableMCMax over the keys ks, in their order:
\* the first half of ks, then the second half
RECURSIVE removeMutableMCMaxLoop(_, _, _, _, _)
removeMutableMCMaxLoop(m, ks, mutable, var_pars, d) ==
    IF ~ok(m) \/ ks = <<>> THEN m
    ELSE IF Len(ks) = 1
    THEN removeMutableMCMaxKey(m, ks[1], mutable, var_pars, d)
    ELSE removeMutableMCMaxLoop(
             removeMutableMCMaxLoop(m, SubSeq(ks, 1, Len(ks) \div 2),
                                    mutable, var_pars, d),
             SubSeq(ks, Len(ks) \div 2 + 1, Len(ks)), mutable, var_pars, d)

\* the last loop of removeMutableMCMax, over the species of DUST_LIST and
\* the parameters pars of each: if not float(self[par]): del self[par]
RECURSIVE removeZeroes(_, _, _)
removeZeroes(m, pars, d) ==
    IF pars = <<>> \/ ~ok(m) THEN m
    ELSE LET par == Head(pars)
             zero(g) == IF ok(g) /\ g.val[1] = N(0) THEN delitem(g, par) ELSE g
             m1 == IF has_key(m, par)
                   THEN zero(gets(m, <<<<par, "float">>>>, d))
                   ELSE m
         IN  removeZeroes(m1, Tail(pars), d)

\* ('T_DES_' + species, 'T_MIN_' + species) for every species of lst
RECURSIVE ZeroPars(_)
ZeroPars(lst) ==
    IF lst = <<>> THEN <<>>
    ELSE <<"T_DES_" \o Head(lst), "T_MIN_" \o Head(lst)>> \o ZeroPars(Tail(lst))

removeMutableMCMax(m, mutable, var_pars, order, d) ==
    LET zeroes(l) ==
            IF ~ok(l) THEN l
            ELSE ret(removeZeroes(l, ZeroPars(l.val[2]), d), NoneV)
        checked(c) ==
            IF ~ok(c) THEN c ELSE zeroes(iter(getitem(c, "DUST_LIST", d)))
        removed(r) == IF ~ok(r) THEN r ELSE checked(checkT(r, d))
    IN  removed(removeMutableMCMaxLoop(m, keys(m, order), mutable, var_pars,
                                       d))

\* a purge that removes the mutable names whether varied or not
RECURSIVE removeMutableGastronoomAll(_, _, _, _)
removeMutableGastronoomAll(m, ks, mutable, var_pars) ==
    IF ~ok(m) \/ ks = <<>> THEN ret(m, NoneV)
    ELSE IF Len(ks) = 1
    THEN ret(IF ks[1] \in mutable THEN delitem(m, ks[1]) ELSE m, NoneV)
    ELSE removeMutableGastronoomAll(
             removeMutableGastronoomAll(m, SubSeq(ks, 1, Len(ks) \div 2),
                                        mutable, var_pars),
             SubSeq(ks, Len(ks) \div 2 + 1, Len(ks)), mutable, var_pars)

\* removeMutableGastronoom: the loop over the keys ks, in their order (the
\* first half of ks, then the second half)
RECURSIVE removeMutableGastronoom(_, _, _, _)
removeMutableGastronoom(m, ks, mutable, var_pars) ==
    IF ~ok(m) \/ ks = <<>> THEN ret(m, NoneV)
    ELSE IF Len(ks) = 1
    THEN ret(IF ks[1] \in mutable /\ ks[1] \notin var_pars
             THEN delitem(m, ks[1]) ELSE m, NoneV)
    ELSE removeMutableGastronoom(
             removeMutableGastronoom(m, SubSeq(ks, 1, Len(ks) \div 2),
                                     mutable, var_pars),
             SubSeq(ks, Len(ks) \div 2 + 1, Len(ks)), mutable, var_pars)

\* --------------------------------------------------------------- constructor
\* dict(example_star), update(extra_input): the entries given
Dict(pairs) ==
    [k \in Names |-> IF \E q \in pairs : q[1] = k
                     THEN (CHOOSE q \in pairs : q[1] = k)[2] ELSE Absent]

Machine(st, e) == [st |-> st, exc |-> NoExc, val |-> NoneV, log |-> <<>>,
                   env |-> e]

\* Star.__init__
StarInit(input, e) ==
    callRule(Machine(Dict(input), e), <<"convertRadialUnit", "">>, MaxDepth)

\* ----------------------------------------------------------------- inputs
Inputs ==
    {{},
     {<<"L_STAR", N(1)>>, <<"T_STAR", N(1)>>, <<"STAR_NAME", S("rdor")>>,
      <<"STAR_INDEX", N(7)>>,
      <<"MDOT_DUST", N(1)>>, <<"A_AMC", N(1)>>, <<"A_SIL", N(0)>>,
      <<"T_MIN_AMC", N(1)>>, <<"T_CONTACT", N(0)>>, <<"NRAD", N(1)>>,
      <<"NTHETA", N(1)>>, <<"POWER_T_DUST", N(1)>>,
      <<"R_OUTER_MULTIPLY", N(1)>>, <<"T_MAX_SIL", N(0)>>,
      <<"DENSTYPE", S("POW")>>, <<"DENSPOW", N(2)>>, <<"DENSSIGMA_0", N(1)>>},
     {<<"L_STAR", N(1)>>, <<"R_STAR", N(1)>>, <<"T_STAR", Marker>>,
      <<"R_SHELL_UNIT", S("AU")>>, <<"R_INNER_DUST", Marker>>,
      <<"R_INNER_DUST_AU", N(1)>>, <<"R_OUTER_DUST_AU", Marker>>,
      <<"STAR_NAME", S("unknown")>>, <<"STAR_INDEX", Marker>>,
      <<"DENSTYPE", S("MASSLOSS")>>, <<"MDOT_DUST", N(1)>>,
      <<"A_AMC", Marker>>, <<"T_MAX_AMC", N(1)>>, <<"T_DESA_AMC", N(1)>>,
      <<"DUST_LIST", L(<<"SIL", "AMC">>)>>, <<"A_SIL", N(1)>>}}

\* the values  star[k] = v  is called with
Values == {N(1), Marker}

\* the public rule methods, as <<method, argument>>
Rules ==
    {<<"calcTLR", "">>, <<"checkT", "">>}
    \cup {<<"getClassAttr", k>> : k \in ClassAttrNames}
    \cup {<<"calcR_MAX", k>> : k \in Prefixed("R_MAX_")}
    \cup {<<"calcT_DES", s>> : s \in SpeciesSet}
    \cup {<<"calc", k>> : k \in CalcNames}

\* the lists removeMutableMCMax and removeMutableGastronoom are called with
Mutables ==
    {{"DUST_LIST", "SPEC_DENS_DUST", "A_AMC", "R_INNER_DUST", "T_STAR"},
     {"T_DES_AMC", "R_DES_AMC", "L_STAR", "DENSTYPE", "STAR_INDEX"}}
VarPars == {{}, {"T_DES_AMC", "L_STAR", "A_AMC", "R_STAR"}}
Orders == {"listed", "reversed"}


\* -------------------------------------------------------------- Transition
\* A Transition object is a record of its attributes.  offset is kept in
\* thousandths.  datafiles is None or a reference <<"ref", r>> to the list
\* lists[r]: two objects may hold the same list.  A call on transitions is
\* evaluated on tm = [pool, lists, exc, val, loc]: the objects, the lists,
\* the pending exception, the returned value and the local variables of the
\* grid search of getBestVlsr.
Ref(r) == <<"ref", r>>
Str(x) == <<"str", x>>

Upper(x) ==
    CASE x = "apex" -> "APEX"
      [] OTHER -> x

\* '%.2f' % offset, for offset >= 0 in thousandths that is not halfway
\* between two hundredths
Fmt2(o) ==
    LET h == (o + 5) \div 10
    IN  ToString(h \div 100) \o "." \o ToString((h % 100) \div 10)
        \o ToString(h % 10)

\* Transition.__init__; a is the record of the arguments given
Transition(a, datafiles) ==
    [molecule |-> a.molecule,
     telescope |-> IF a.telescope = NoneV THEN "N.A." ELSE Upper(a.telescope[2]),
     vup |-> a.vup, jup |-> a.jup, kaup |-> a.kaup, kcup |-> a.kcup,
     vlow |-> a.vlow, jlow |-> a.jlow, kalow |-> a.kalow, kclow |-> a.kclow,
     offset |-> a.offset, n_quad |-> a.n_quad,
     use_maser_in_sphinx |-> a.use_maser_in_sphinx,
     vexp |-> a.vexp, model_id |-> NoneV, sphinx |-> NoneV,
     datafiles |-> datafiles, lpdata |-> NoneV, best_vlsr |-> NoneV,
     chi2_best_vlsr |-> Absent, dtmb_best_vlsr |-> Absent]

\* Transition.__str__, as the sequence of the formatted fields
str(t) ==
    <<"TRANSITION=", t.molecule.molecule_full, ToString(t.vup),
      ToString(t.jup), ToString(t.kaup), ToString(t.kcup), ToString(t.vlow),
      ToString(t.jlow), ToString(t.kalow), ToString(t.kclow), t.telescope,
      Fmt2(t.offset)>>

\* s.replace(old, ''), on a sequence of fields
replace(s, old) == SelectSeq(s, LAMBDA x : x # old)

\* a snapshot of the printed descriptor alone
makeDictDescriptorOnly(t) == [TRANSITION |-> replace(str(t), "TRANSITION=")]

\* a snapshot that also holds the model id and the best-fit velocity
makeDictWithModel(t) ==
    [TRANSITION |-> replace(str(t), "TRANSITION="),
     N_QUAD |-> t.n_quad,
     USE_MASER_IN_SPHINX |-> t.use_maser_in_sphinx,
     MODEL_ID |-> t.model_id,
     BEST_VLSR |-> t.best_vlsr]

makeDict(t) ==
    [TRANSITION |-> replace(str(t), "TRANSITION="),
     N_QUAD |-> t.n_quad,
     USE_MASER_IN_SPHINX |-> t.use_maser_in_sphinx]

\* Transition.__eq__, __ne__, __hash__ (other is a Transition: no
\* AttributeError)
eq(t, other) == IF makeDict(t) = makeDict(other) THEN TRUE ELSE FALSE
ne(t, other) == IF makeDict(t) # makeDict(other) THEN TRUE ELSE FALSE
hash(t) == <<"hash", makeDict(t)>>

\* the contents of a datafiles attribute
Files(lists, datafiles) ==
    IF datafiles = NoneV THEN <<>> ELSE lists[datafiles[2]]

\* Transition.addDatafile on the object pool[i]; datafile is a string
\* <<"str", x>>, a list <<"ref", r>> or None
addDatafile(tm, i, datafile) ==
    LET self == tm.pool[i] IN
    IF datafile[1] = "str" THEN
        IF self.datafiles = NoneV
        THEN [tm EXCEPT !.lists = Append(@, <<datafile[2]>>),
                        !.pool[i].datafiles = Ref(Len(tm.lists) + 1)]
        ELSE [tm EXCEPT !.lists[self.datafiles[2]] = Append(@, datafile[2])]
    ELSE
        IF self.datafiles = NoneV
        THEN [tm EXCEPT !.pool[i].datafiles = datafile]
        ELSE IF datafile = NoneV THEN [tm EXCEPT !.exc = TypeError]
        ELSE [tm EXCEPT !.lists[self.datafiles[2]] = @ \o tm.lists[datafile[2]]]

\* membership by identity alone
containsSameObject(tm, merged, i) == \E k \in 1..Len(merged) : merged[k] = i

\* trans in merged: the same object, or an equal one
contains(tm, merged, i) ==
    \E k \in 1..Len(merged) : merged[k] = i \/ eq(tm.pool[merged[k]], tm.pool[i])

\* merged.index(trans)
index(tm, merged, i) ==
    CHOOSE k \in 1..Len(merged) :
        /\ merged[k] = i \/ eq(tm.pool[merged[k]], tm.pool[i])
        /\ \A j \in 1..(k - 1) :
               ~(merged[j] = i \/ eq(tm.pool[merged[j]], tm.pool[i]))

\* the loop of checkUniqueness over the rest of trans_list
RECURSIVE mergeLoop(_, _, _)
mergeLoop(tm, merged, rest) ==
    IF rest = <<>> THEN [tm EXCEPT !.val = merged]
    ELSE LET trans == Head(rest) IN
         IF ~contains(tm, merged, trans)
         THEN mergeLoop(tm, Append(merged, trans), Tail(rest))
         ELSE LET t1 == addDatafile(tm, merged[index(tm, merged, trans)],
                                    tm.pool[trans].datafiles)
              IN  IF t1.exc # NoExc THEN t1
                  ELSE mergeLoop(t1, merged, Tail(rest))

\* trans_list is a sequence of objects (indices of the pool)
checkUniqueness(tm, trans_list) == mergeLoop(tm, <<>>, trans_list)

\* Transition.setModelId
setModelId(tm, i, model_id) == [tm EXCEPT !.pool[i].model_id = model_id]

\* ---------------------------------------------------------------- matcher
\* Velocities and fluxes are integers.  A velocity is counted in grid steps
\* (with vexp = GridPoints - 1 the step of the grid is 1), a flux is an even
\* number, so that the linear interpolation between two velocities of a
\* data file is exact.  A chi-squared is the fraction Q(sum, noise^2).
Q(num, den) == <<"q", num, den>>
NameError == <<"NameError">>

\* the number of candidates of the grid search
GridPoints == 31

\* a line of height 8 and half width 4 around x = 0
Shape(x) == IF -4 <= x /\ x <= 4 THEN 8 - 2 * (IF x < 0 THEN -x ELSE x) ELSE 0
\* what the readers find in a data file: the noise, the velocities and the
\* observed fluxes.  a.dat holds the line around the velocity 2; b.fits and
\* every other file hold no line; b.fits has three deviating samples
Profile(df) ==
    [noise |-> 2,
     velocity |-> [j \in 1..25 |-> 2 * j - 26],
     flux |-> [j \in 1..25 |->
                  LET v == 2 * j - 26 IN
                  CASE df = "a.dat" -> Shape(v - 2)
                    [] df = "b.fits" ->
                         (CASE v = -14 -> -2 [] v = -10 -> -6 [] v = -6 -> 6
                            [] OTHER -> 0)
                    [] OTHER -> 0]]
\* the profile sphinx computed for a model
SphinxProfile ==
    [velocity |-> <<-4, -2, 0, 2, 4>>,
     tmb |-> [j \in 1..5 |-> Shape(2 * j - 6)]]

\* FitsReader.FitsReader(df, vlsr) or TxtReader.TxtReader(df, vlsr), and
\* lprof.getVlsr()
\* the header of b.fits gives the velocity 3
Reader(df, vlsr) ==
    IF df \in {"b.fits"} THEN [file |-> df, vlsr |-> N(3)]
    ELSE [file |-> df, vlsr |-> vlsr]

RECURSIVE Sum(_)
Sum(seq) == IF seq = <<>> THEN 0 ELSE Head(seq) + Sum(Tail(seq))

\* num points from start on that leave out stop
linspaceOpen(start, stop, num) ==
    [k \in 1..num |-> start + (k - 1) * ((stop - start) \div num)]
\* numpy.linspace(start, stop, num), for stop - start a multiple of num - 1
linspace(start, stop, num) ==
    [k \in 1..num |-> start + (k - 1) * ((stop - start) \div (num - 1))]

\* interp1d(x, y)(xnew) for xnew in the range of x: linear between the two
\* neighbours
interp1d(x, y, xnew) ==
    LET k == CHOOSE j \in 1..(Len(x) - 1) : x[j] <= xnew /\ xnew <= x[j + 1]
    IN  y[k] + ((y[k + 1] - y[k]) * (xnew - x[k])) \div (x[k + 1] - x[k])

\* a[mask] for a sequence of booleans mask
RECURSIVE compress(_, _)
compress(a, mask) ==
    IF a = <<>> THEN <<>>
    ELSE (IF Head(mask) THEN <<Head(a)>> ELSE <<>>)
         \o compress(Tail(a), Tail(mask))

\* a mask that also drops the samples equal to the threshold
gt(a, x) == [j \in 1..Len(a) |-> a[j] > x]
\* a >= x
ge(a, x) == [j \in 1..Len(a) |-> a[j] >= x]

\* BasicStats.calcChiSquared(data, model, noise)
calcChiSquared(data, model, noise) ==
    Q(Sum([j \in 1..Len(data) |-> (data[j] - model[j]) * (data[j] - model[j])]),
      noise * noise)

\* the order of two chi-squared values
Less(a, b) == a[2] * b[3] < b[2] * a[3]
\* the last of the smallest elements
argminLast(seq) ==
    CHOOSE k \in 1..Len(seq) :
        /\ \A j \in 1..Len(seq) : ~Less(seq[j], seq[k])
        /\ \A j \in (k + 1)..Len(seq) : Less(seq[k], seq[j])
\* the first of the largest elements
argmax(seq) ==
    CHOOSE k \in 1..Len(seq) :
        /\ \A j \in 1..Len(seq) : ~Less(seq[k], seq[j])
        /\ \A j \in 1..(k - 1) : Less(seq[j], seq[k])
\* numpy.argmin: the first of the smallest elements
argmin(seq) ==
    CHOOSE k \in 1..Len(seq) :
        /\ \A j \in 1..Len(seq) : ~Less(seq[j], seq[k])
        /\ \A j \in 1..(k - 1) : Less(seq[k], seq[j])

\* min(seq)
min(seq) == seq[argmin(seq)]

\* scipy.integrate.trapz(x, y), twice the integral being even here
trapz(x, y) ==
    Sum([j \in 1..(Len(x) - 1) |-> (x[j + 1] - x[j]) * (y[j] + y[j + 1])]) \div 2

\* Transition.setVexp
setVexp(tm, i, vexp) ==
    IF tm.pool[i].vexp = NoneV THEN [tm EXCEPT !.pool[i].vexp = vexp, !.val = NoneV]
    ELSE [tm EXCEPT !.val = NoneV]

\* a readSphinx that reads whatever the model id is
readSphinxAlways(tm, i) ==
    [tm EXCEPT !.pool[i].sphinx = <<"SphinxReader", "">>, !.val = NoneV]
\* Transition.readSphinx
readSphinx(tm, i) ==
    LET self == tm.pool[i] IN
    IF self.sphinx = NoneV /\ self.model_id # NoneV /\ self.model_id # S("")
    THEN [tm EXCEPT !.pool[i].sphinx = <<"SphinxReader", self.model_id[2]>>,
                    !.val = NoneV]
    ELSE [tm EXCEPT !.val = NoneV]

\* a readData that reads a.dat for a transition without data files
readDataDefault(tm, i, vlsr) ==
    LET self == tm.pool[i]
        files == IF self.datafiles = NoneV THEN <<"a.dat">>
                 ELSE Files(tm.lists, self.datafiles)
    IN  IF self.lpdata = NoneV
        THEN [tm EXCEPT !.pool[i].lpdata =
                            L([k \in 1..Len(files) |-> Reader(files[k], vlsr)]),
                        !.val = NoneV]
        ELSE [tm EXCEPT !.val = NoneV]
\* Transition.readData
readData(tm, i, vlsr) ==
    LET self == tm.pool[i]
        files == Files(tm.lists, self.datafiles)
    IN  IF self.lpdata = NoneV
        THEN [tm EXCEPT !.pool[i].lpdata =
                            L([k \in 1..Len(files) |-> Reader(files[k], vlsr)]),
                        !.val = NoneV]
        ELSE [tm EXCEPT !.val = NoneV]

\* Transition.setData
setData(tm, i, trans) ==
    IF tm.pool[i].lpdata = NoneV /\ eq(tm.pool[i], tm.pool[trans])
    THEN [tm EXCEPT !.pool[i].lpdata = tm.pool[trans].lpdata, !.val = NoneV]
    ELSE [tm EXCEPT !.val = NoneV]

\* the grid search of getBestVlsr, from the line that reads the noise on
\* (f \o <<>> is the function f written out as a sequence)
gridSearch(tm, i, vlsr) ==
    LET self == tm.pool[i]
        data == Profile(self.lpdata[2][1].file)
        noise == data.noise
        mvel == SphinxProfile.velocity
        mtmb == SphinxProfile.tmb
    IN  IF vlsr = NoneV THEN [tm EXCEPT !.exc = TypeError]
        ELSE
        LET range_in_vlsr == linspace(vlsr[2] - self.vexp[2] \div 2,
                                      vlsr[2] + self.vexp[2] \div 2, GridPoints)
                                 \o <<>>
        IN  IF \E k \in 1..GridPoints, j \in 1..Len(mvel) :
                   \/ mvel[j] + range_in_vlsr[k] < data.velocity[1]
                   \/ mvel[j] + range_in_vlsr[k] > data.velocity[Len(data.velocity)]
            THEN [tm EXCEPT !.exc = ValueError]
            ELSE
            LET dtmb_interp ==
                    [k \in 1..GridPoints |-> [j \in 1..Len(mvel) |->
                        interp1d(data.velocity, data.flux,
                                 mvel[j] + range_in_vlsr[k])] \o <<>>] \o <<>>
                chisquared ==
                    [k \in 1..GridPoints |->
                        calcChiSquared(
                            compress(dtmb_interp[k], ge(dtmb_interp[k], -noise)),
                            compress(mtmb, ge(dtmb_interp[k], -noise)), noise)]
                    \o <<>>
            IN  [tm EXCEPT
                    !.pool[i].chi2_best_vlsr = min(chisquared),
                    !.pool[i].best_vlsr = N(range_in_vlsr[argmin(chisquared)]),
                    !.pool[i].dtmb_best_vlsr = L(dtmb_interp[argmin(chisquared)]),
                    !.val = N(range_in_vlsr[argmin(chisquared)]),
                    !.loc = [searched |-> TRUE,
                             range_in_vlsr |-> range_in_vlsr,
                             dtmb_interp |-> dtmb_interp,
                             chisquared |-> chisquared,
                             mtmb |-> mtmb, noise |-> noise]]

\* a getBestVlsr that searches again on a matched transition
getBestVlsrAgain(tm, i, vlsr) ==
    LET read == readData(tm, i, vlsr) IN
    IF read.pool[i].lpdata[2] = <<>> THEN [read EXCEPT !.val = vlsr]
    ELSE LET sph == readSphinx(read, i)
             fromdata == sph.pool[i].lpdata[2][1].vlsr
         IN  IF sph.pool[i].sphinx = NoneV \/ sph.pool[i].vexp = NoneV
             THEN [sph EXCEPT !.val = fromdata]
             ELSE gridSearch(sph, i, fromdata)
\* a getBestVlsr that keeps the initial guess when the model is missing
getBestVlsrGuess(tm, i, vlsr) ==
    IF tm.pool[i].best_vlsr # NoneV THEN [tm EXCEPT !.val = tm.pool[i].best_vlsr]
    ELSE LET read == readData(tm, i, vlsr) IN
         IF read.pool[i].lpdata[2] = <<>> THEN [read EXCEPT !.val = vlsr]
         ELSE LET sph == readSphinx(read, i)
                  fromdata == sph.pool[i].lpdata[2][1].vlsr
              IN  IF sph.pool[i].sphinx = NoneV \/ sph.pool[i].vexp = NoneV
                  THEN [sph EXCEPT !.val = vlsr]
                  ELSE gridSearch(sph, i, fromdata)
\* Transition.getBestVlsr
getBestVlsr(tm, i, vlsr) ==
    IF tm.pool[i].best_vlsr # NoneV THEN [tm EXCEPT !.val = tm.pool[i].best_vlsr]
    ELSE LET read == readData(tm, i, vlsr) IN
         IF read.pool[i].lpdata[2] = <<>> THEN [read EXCEPT !.val = vlsr]
         ELSE LET sph == readSphinx(read, i)
                  fromdata == sph.pool[i].lpdata[2][1].vlsr
              IN  IF sph.pool[i].sphinx = NoneV \/ sph.pool[i].vexp = NoneV
                  THEN [sph EXCEPT !.val = fromdata]
                  ELSE gridSearch(sph, i, fromdata)

\* Transition.getIntTmbSphinx
getIntTmbSphinx(tm, i) ==
    LET sph == readSphinx(tm, i) IN
    IF sph.pool[i].sphinx = NoneV THEN [sph EXCEPT !.val = NoneV]
    ELSE [sph EXCEPT !.val = N(trapz(SphinxProfile.velocity, SphinxProfile.tmb))]

\* Transition.getPeakTmbSphinx: the module has no name 'mean'
getPeakTmbSphinx(tm, i) ==
    LET sph == readSphinx(tm, i) IN
    IF sph.pool[i].sphinx = NoneV THEN [sph EXCEPT !.val = NoneV]
    ELSE [sph EXCEPT !.exc = NameError]

\* Transition.getIntTmbData
getIntTmbData(tm, i, vlsr) ==
    LET best == IF tm.pool[i].best_vlsr = NoneV THEN getBestVlsr(tm, i, vlsr)
                ELSE tm
    IN  IF best.exc # NoExc THEN best
        ELSE IF best.pool[i].best_vlsr = NoneV THEN [best EXCEPT !.val = NoneV]
        ELSE [best EXCEPT !.val = N(trapz(SphinxProfile.velocity,
                                          best.pool[i].dtmb_best_vlsr[2]))]

\* Transition.getPeakTmbData
getPeakTmbData(tm, i, vlsr) ==
    LET best == IF tm.pool[i].best_vlsr = NoneV THEN getBestVlsr(tm, i, vlsr)
                ELSE tm
    IN  IF best.exc # NoExc THEN best
        ELSE IF best.pool[i].best_vlsr = NoneV THEN [best EXCEPT !.val = NoneV]
        ELSE [best EXCEPT !.exc = NameError]

\* Transition.getLoglikelihood; the value of calcLoglikelihood is kept as
\* the call with the two integrated intensities of the shift factor
getLoglikelihood(tm, i, vlsr) ==
    LET best == IF tm.pool[i].best_vlsr = NoneV THEN getBestVlsr(tm, i, vlsr)
                ELSE tm
    IN  IF best.exc # NoExc THEN best
        ELSE IF best.pool[i].best_vlsr = NoneV THEN [best EXCEPT !.val = NoneV]
        ELSE [best EXCEPT !.val =
                 F("calcLoglikelihood",
                   <<getIntTmbData(best, i, NoneV).val,
                     getIntTmbSphinx(best, i).val>>)]

\* a call of one of the five methods that need a matched transition
callGetter(tm, i, method, vlsr) ==
    CASE method = "getIntTmbSphinx"  -> getIntTmbSphinx(tm, i)
      [] method = "getPeakTmbSphinx" -> getPeakTmbSphinx(tm, i)
      [] method = "getIntTmbData"    -> getIntTmbData(tm, i, vlsr)
      [] method = "getPeakTmbData"   -> getPeakTmbData(tm, i, vlsr)
      [] method = "getLoglikelihood" -> getLoglikelihood(tm, i, vlsr)

\* -------------------------------------------------------------- GAS_LINES
\* Star.calcGAS_LINES on a star whose entries PATH_GAS_DATA, DATA_MOL,
\* MOLECULE, N_QUAD, USE_MASER_IN_SPHINX, VEL_INFINITY_GAS, TRANSITION and
\* LINE_LISTS are given; data_list is the sorted list of the data files
\* found, each with its molecule, telescope and levels, and ll_lines are the
\* lines of the line list file LL_FILE.

\* the objects made one after the other at the end of the pool, with the
\* arguments as[k] and the file files[k], a file name or None
RECURSIVE newAll(_, _, _)
newAll(tm, as, files) ==
    IF as = <<>> THEN tm
    ELSE LET t1 == IF Head(files) = NoneV
                   THEN [tm EXCEPT !.pool = Append(@, Transition(Head(as), NoneV))]
                   ELSE [tm EXCEPT
                            !.pool = Append(@, Transition(Head(as),
                                                Ref(Len(tm.lists) + 1))),
                            !.lists = Append(@, <<Head(files)[2]>>)]
         IN  newAll(t1, Tail(as), Tail(files))

\* Transition.makeTransition(star, trans): the arguments of the object made
\* from the input line trans, whose molecule is one of the star's
makeTransition(star, trans) ==
    [trans EXCEPT !.vexp = star.VEL_INFINITY_GAS,
                  !.use_maser_in_sphinx = star.USE_MASER_IN_SPHINX]

\* a collection that keeps every element given
setAll(tm, seq) == seq

\* set(seq): of equal elements the first one added is kept
RECURSIVE set(_, _)
set(tm, seq) ==
    IF seq = <<>> THEN <<>>
    ELSE LET front == set(tm, SubSeq(seq, 1, Len(seq) - 1))
             x == seq[Len(seq)]
         IN  IF contains(tm, front, x) THEN front ELSE Append(front, x)

\* a < b for two printed descriptors; Ord is the place of a field in the
\* order of strings
RECURSIVE StrLess(_, _)
StrLess(a, b) ==
    LET Ord(x) ==
            CASE x = "0" -> 0 [] x = "0.00" -> 1 [] x = "0.01" -> 2
              [] x = "1" -> 3 [] x = "12C16O" -> 4 [] x = "2" -> 5
              [] x = "3" -> 6 [] x = "APEX" -> 7 [] x = "JCMT" -> 8
              [] x = "N.A." -> 9 [] OTHER -> 10
    IN  IF a = <<>> \/ b = <<>> THEN a = <<>> /\ b # <<>>
        ELSE IF Head(a) = Head(b) THEN StrLess(Tail(a), Tail(b))
        ELSE Ord(Head(a)) < Ord(Head(b))

\* sorted(seq, key=lambda x: str(x)), a stable sort
RECURSIVE sorted(_, _)
sorted(tm, seq) ==
    IF seq = <<>> THEN <<>>
    ELSE LET front == sorted(tm, SubSeq(seq, 1, Len(seq) - 1))
             x == seq[Len(seq)]
             n == Cardinality({j \in 1..Len(front) :
                      ~StrLess(str(tm.pool[x]), str(tm.pool[front[j]]))})
         IN  SubSeq(front, 1, n) \o <<x>> \o SubSeq(front, n + 1, Len(front))

\* new_lines made from the input lines, followed by the GAS_LINES so far,
\* as tuple(set(new_lines)); order is the order the set is iterated in
addLines(tm, star, lines, order) ==
    LET wanted == SelectSeq(lines, LAMBDA t : t.molecule \in star.MOLECULE)
        t1 == newAll(tm, [k \in 1..Len(wanted) |->
                              makeTransition(star, wanted[k])] \o <<>>,
                     [k \in 1..Len(wanted) |-> NoneV] \o <<>>)
        new_lines == [k \in 1..Len(wanted) |-> Len(tm.pool) + k] \o tm.val
        unique == set(t1, new_lines)
    IN  [t1 EXCEPT !.val = IF order = "listed" THEN unique
                            ELSE Reverse(unique) \o <<>>]

\* calcGAS_LINES when the star has no GAS_LINES: tm.val is self['GAS_LINES']
calcGAS_LINES(tm, star, order) ==
    LET t0 == [tm EXCEPT !.val = <<>>]
        data_list == star.data_list
        made == newAll(t0,
                    [k \in 1..Len(data_list) |->
                        [molecule |-> data_list[k].molecule,
                         telescope |-> S(data_list[k].telescope), vup |-> 0,
                         jup |-> data_list[k].jup, kaup |-> 0, kcup |-> 0,
                         vlow |-> 0, jlow |-> data_list[k].jlow, kalow |-> 0,
                         kclow |-> 0, offset |-> 0, n_quad |-> star.N_QUAD,
                         use_maser_in_sphinx |-> star.USE_MASER_IN_SPHINX,
                         vexp |-> NoneV]] \o <<>>,
                    [k \in 1..Len(data_list) |-> Str(data_list[k].raw)]
                        \o <<>>)
        t1 == IF star.PATH_GAS_DATA # "" /\ star.DATA_MOL # 0
              THEN checkUniqueness(made,
                       [k \in 1..Len(star.data_list) |-> Len(tm.pool) + k])
              ELSE t0
        t2 == IF star.TRANSITION # Absent
              THEN addLines(t1, star, star.TRANSITION[2], order) ELSE t1
        t3 == IF star.LINE_LISTS = 2
              THEN addLines(t2, star, star.ll_lines, order) ELSE t2
        t4 == [t3 EXCEPT !.val = sorted(t3, t3.val)]
        requested_transitions == {str(t4.pool[t4.val[k]]) : k \in 1..Len(t4.val)}
    IN  IF t1.exc # NoExc THEN t1
        ELSE IF Len(t4.val) # Cardinality(requested_transitions)
        THEN [t4 EXCEPT !.exc = IOError]
        ELSE t4

\* ------------------------------------------------------- transition inputs
MaxTrans == 3
MaxCalls == 2

CO == [molecule |-> "12C16O", molecule_full |-> "12C16O"]
Line32 ==
    [molecule |-> CO, telescope |-> S("APEX"), vup |-> 0, jup |-> 3,
     kaup |-> 0, kcup |-> 0, vlow |-> 0, jlow |-> 2, kalow |-> 0, kclow |-> 0,
     offset |-> 0, n_quad |-> 100, use_maser_in_sphinx |-> 0, vexp |-> NoneV]
\* the arguments Transition(...) is called with
TransArgs ==
    {Line32,
     [Line32 EXCEPT !.telescope = S("apex"), !.offset = 4],
     [Line32 EXCEPT !.n_quad = 50],
     [Line32 EXCEPT !.use_maser_in_sphinx = 1],
     [Line32 EXCEPT !.jup = 2, !.jlow = 1, !.telescope = NoneV]}
\* the data file of the n-th object made
DataFile(n) == "f" \o ToString(n) \o ".dat"

MaxObjects == 2
MaxMatchOps == 4
\* the arguments of the transitions that are matched, and the vlsr given
MatchArgs ==
    {Line32,
     [Line32 EXCEPT !.vexp = N(GridPoints - 1)],
     [Line32 EXCEPT !.vexp = N(GridPoints - 1), !.n_quad = 50]}
Vlsrs == {NoneV, N(0), N(4)}

\* the stars GAS_LINES is derived for: the data files found, the TRANSITION
\* entry and the line list
Stars ==
    LET d32 == [molecule |-> CO, telescope |-> "APEX", jup |-> 3, jlow |-> 2,
                raw |-> "co32_APEX.dat"]
        d32b == [d32 EXCEPT !.raw = "co32_APEX.fits"]
        d21 == [d32 EXCEPT !.jup = 2, !.jlow = 1, !.raw = "co21_APEX.dat"]
        l50 == [Line32 EXCEPT !.n_quad = 50]
        l21 == [Line32 EXCEPT !.jup = 2, !.jlow = 1, !.telescope = S("JCMT")]
        off == [Line32 EXCEPT !.offset = 4]
        h2o == [Line32 EXCEPT !.molecule = [molecule |-> "1H1H16O",
                                            molecule_full |-> "1H1H16O"]]
        data == {[path |-> "", mol |-> 1, list |-> <<>>],
                 [path |-> "data", mol |-> 0, list |-> <<>>],
                 [path |-> "data", mol |-> 1, list |-> <<d32>>],
                 [path |-> "data", mol |-> 1, list |-> <<d21, d32>>],
                 [path |-> "data", mol |-> 1, list |-> <<d32, d32b>>]}
        requested == {Absent, L(<<>>), L(<<Line32>>), L(<<Line32, Line32>>),
                      L(<<Line32, l50>>), L(<<l21, h2o>>), L(<<Line32, off>>)}
        listed == {[ll |-> 0, lines |-> <<>>], [ll |-> 2, lines |-> <<>>],
                   [ll |-> 2, lines |-> <<Line32>>],
                   [ll |-> 2, lines |-> <<l50>>]}
    IN  {[PATH_GAS_DATA |-> d.path, DATA_MOL |-> d.mol, data_list |-> d.list,
          MOLECULE |-> {CO}, N_QUAD |-> 100, USE_MASER_IN_SPHINX |-> 0,
          VEL_INFINITY_GAS |-> N(GridPoints - 1), TRANSITION |-> t,
          LINE_LISTS |-> l.ll, ll_lines |-> l.lines] :
            d \in data, t \in requested, l \in listed}

\* ------------------------------------------------------------------ state
\* store: the Star's dict.  env: the files outside the program.  last: the
\* latest call on the Star (what it was, its outcome and the dict before it).
\* prev: the call before that one.  nops: the number of calls so far.
\* gas_lines: the Star's entry GAS_LINES, Absent or the list of its objects.
\* pool: the Transition objects made so far.  lists: the data file lists
\* they refer to.  tlast: the latest call on transitions, with the objects
\* and lists before it.  ncalls: the number of such calls.
VARIABLES store, env, last, prev, nops, gas_lines, pool, lists, tlast, ncalls

vars == <<store, env, last, prev, nops, gas_lines, pool, lists, tlast, ncalls>>
starvars == <<store, env, last, prev, nops, gas_lines>>
transvars == <<pool, lists, tlast, ncalls>>

Outcome(op, key, arg, m, pre) ==
    [op |-> op, key |-> key, arg |-> arg, exc |-> m.exc,
     val |-> IF ok(m) THEN m.val ELSE NoneV, log |-> m.log, pre |-> pre]

TOutcome(op, arg, tm, prepool, prelists) ==
    [op |-> op, arg |-> arg, exc |-> tm.exc,
     val |-> IF tm.exc = NoExc THEN tm.val ELSE <<>>, loc |-> tm.loc,
     pool |-> prepool, lists |-> prelists]

\* the locals of a call of getBestVlsr that did not search
NoSearch ==
    [searched |-> FALSE, range_in_vlsr |-> <<>>, dtmb_interp |-> <<>>,
     chisquared |-> <<>>, mtmb |-> <<>>, noise |-> 0]

TMachine(p, l) ==
    [pool |-> p, lists |-> l, exc |-> NoExc, val |-> <<>>, loc |-> NoSearch]

NoStar ==
    /\ store = Dict({})
    /\ env = CHOOSE e \in Envs : ~e.mcmax
    /\ last = Outcome("init", "", NoneV, Machine(Dict({}), env), Dict({}))
    /\ prev = last
    /\ nops = 0
    /\ gas_lines = Absent

NoTransitions ==
    /\ pool = <<>>
    /\ lists = <<>>
    /\ tlast = TOutcome("init", <<>>, TMachine(<<>>, <<>>), <<>>, <<>>)
    /\ ncalls = 0

\* the star as constructed, when the constructor returns
Constructed(m) ==
    /\ ok(m)
    /\ store = m.st
    /\ env = m.env
    /\ last = Outcome("init", "", NoneV, ret(m, NoneV), m.st)
    /\ prev = last
    /\ nops = 0
    /\ gas_lines = Absent

Init ==
    /\ \E input \in Inputs, e \in Envs : Constructed(StarInit(input, e))
    /\ NoTransitions

\* value = star[key]
Get(key) ==
    LET m == getitem(Machine(store, env), key, MaxDepth) IN
    /\ nops < MaxOps
    /\ store' = m.st
    /\ last' = Outcome("get", key, NoneV, m, store)
    /\ prev' = last
    /\ nops' = nops + 1
    /\ UNCHANGED <<env, gas_lines, transvars>>

\* star[key] = v
SetItem(key, v) ==
    LET m == setitem(Machine(store, env), key, v) IN
    /\ nops < MaxOps
    /\ store' = m.st
    /\ last' = Outcome("set", key, v, m, store)
    /\ prev' = last
    /\ nops' = nops + 1
    /\ UNCHANGED <<env, gas_lines, transvars>>

\* star.calcX(), star.checkT(), star.getClassAttr(key) called directly
CallRule(r) ==
    LET m == ret(callRule(Machine(store, env), r, MaxDepth), NoneV) IN
    /\ nops < MaxOps
    /\ store' = m.st
    /\ last' = Outcome("call", r[2], r, m, store)
    /\ prev' = last
    /\ nops' = nops + 1
    /\ UNCHANGED <<env, gas_lines, transvars>>

\* star.removeMutableMCMax(mutable, var_pars)
RemoveMutableMCMax(mutable, var_pars, order) ==
    LET m == callRule(Machine(store, env),
                      <<"removeMutableMCMax", <<mutable, var_pars, order>>>>,
                      MaxDepth) IN
    /\ nops < MaxOps
    /\ store' = m.st
    /\ last' = Outcome("removeMutableMCMax", "", <<"purge", mutable, var_pars>>, m, store)
    /\ prev' = last
    /\ nops' = nops + 1
    /\ UNCHANGED <<env, gas_lines, transvars>>

\* star.removeMutableGastronoom(mutable, var_pars)
RemoveMutableGastronoom(mutable, var_pars, order) ==
    LET m == removeMutableGastronoom(Machine(store, env),
                                     keys(Machine(store, env), order),
                                     mutable, var_pars) IN
    /\ nops < MaxOps
    /\ store' = m.st
    /\ last' = Outcome("removeMutableGastronoom", "", <<"purge", mutable, var_pars>>, m,
                       store)
    /\ prev' = last
    /\ nops' = nops + 1
    /\ UNCHANGED <<env, gas_lines, transvars>>

Next ==
    \/ \E key \in Names : Get(key)
    \/ \E key \in Names, v \in Values : SetItem(key, v)
    \/ \E r \in Rules : CallRule(r)
    \/ \E mutable \in Mutables, var_pars \in VarPars, order \in Orders :
           RemoveMutableGastronoom(mutable, var_pars, order)

Spec == Init /\ [][Next]_vars

\* the purge between two iterations, of a star as constructed or with one
\* entry set by the caller
NextPurge ==
    \/ \E key \in Names, v \in Values : SetItem(key, v)
    \/ \E mutable \in Mutables, var_pars \in VarPars, order \in Orders :
           RemoveMutableMCMax(mutable, var_pars, order)

SpecPurge == Init /\ [][NextPurge]_vars

\* names with the prefix of a shape and a suffix that is no species of
\* Dust.dat
Unlisted == {"R_MAX_XYZ", "R_DES_XYZ", "T_DESA_XYZ", "T_DESB_XYZ", "T_DES_XYZ"}

\* star.missingInput(missing_key)
MissingInput(missing_key) ==
    LET m == ret(missingInput(Machine(store, env), missing_key, MaxDepth), NoneV) IN
    /\ nops < MaxOps
    /\ store' = m.st
    /\ last' = Outcome("missingInput", missing_key, NoneV, m, store)
    /\ prev' = last
    /\ nops' = nops + 1
    /\ UNCHANGED <<env, gas_lines, transvars>>

NextDispatch == \E missing_key \in Names \cup Unlisted : MissingInput(missing_key)

SpecDispatch == Init /\ [][NextDispatch]_vars

\* Transition(molecule, ..., datafiles=None) or datafiles='<file>'
NewTransition(a, withfile) ==
    /\ Len(pool) < MaxTrans
    /\ IF withfile
       THEN /\ lists' = Append(lists, <<DataFile(Len(pool) + 1)>>)
            /\ pool' = Append(pool, Transition(a, Ref(Len(lists) + 1)))
       ELSE /\ lists' = lists
            /\ pool' = Append(pool, Transition(a, NoneV))
    /\ UNCHANGED <<tlast, ncalls, starvars>>

\* the sequences of distinct objects of the pool
RECURSIVE Lists(_)
Lists(ids) ==
    {<<>>} \cup UNION {{<<i>> \o l : l \in Lists(ids \ {i})} : i \in ids}

\* checkUniqueness(trans_list)
CheckUniqueness(trans_list) ==
    LET tm == checkUniqueness(TMachine(pool, lists), trans_list) IN
    /\ ncalls < MaxCalls
    /\ pool' = tm.pool
    /\ lists' = tm.lists
    /\ tlast' = TOutcome("checkUniqueness", trans_list, tm, pool, lists)
    /\ ncalls' = ncalls + 1
    /\ UNCHANGED starvars

\* trans.setModelId(model_id)
SetModelId(i, model_id) ==
    LET tm == setModelId(TMachine(pool, lists), i, model_id) IN
    /\ ncalls < MaxCalls
    /\ pool' = tm.pool
    /\ lists' = tm.lists
    /\ tlast' = TOutcome("setModelId", <<i>>, tm, pool, lists)
    /\ ncalls' = ncalls + 1
    /\ UNCHANGED starvars

InitTransition == NoStar /\ NoTransitions

\* ------------------------------------------------- Transition.__setIndices
\* Transition(molecule, ...) without a frequency.  Of the Molecule object
\* the constructor reads spec_indices, ny_low, radiat_indices (the rows
\* <<index, v, J>> of the indices file) and radiat: the pairs
\* <<low_i, up_i>> for which radiat.getTransInfo returns the entry of the
\* table; for every other pair it returns False.
Prompt == <<"raw_input">>
EOFError == <<"EOFError">>
FalseV == <<"False">>
Molecules ==
    {[spec_indices |-> FALSE, ny_low |-> 60, radiat_indices |-> <<>>,
      radiat |-> {<<2, 3>>, <<3, 4>>}],
     [spec_indices |-> FALSE, ny_low |-> 60, radiat_indices |-> <<>>,
      radiat |-> {<<2, 3>>}],
     [spec_indices |-> TRUE, ny_low |-> 60,
      radiat_indices |-> <<<<1, 0, 1>>, <<2, 0, 2>>, <<3, 0, 3>>>>,
      radiat |-> {<<1, 2>>}],
     [spec_indices |-> TRUE, ny_low |-> 60,
      radiat_indices |-> <<<<1, 0, 2>>, <<2, 0, 3>>>>,
      radiat |-> {<<1, 2>>}]}

\* self.molecule.radiat.getTransInfo(low_i=.., up_i=..)
getTransInfo(mol, low_i, up_i) ==
    IF <<low_i, up_i>> \in mol.radiat
    THEN <<"dict", F("frequency", <<N(low_i), N(up_i)>>)>>
    ELSE FalseV

\* Transition.__setIndices up to the test of radiat_trans: the indices and
\* what getTransInfo returned, or the ValueError of list.index
setIndices(a, mol) ==
    LET indices == mol.radiat_indices
        quantum(qs) == SubSeq(qs, 1, Len(indices[1]) - 1)
        rows(q) == {k \in 1..Len(indices) : Tail(indices[k]) = quantum(q)}
        first(q) == indices[CHOOSE k \in rows(q) : \A j \in rows(q) : k <= j][1]
        quantum_up == <<a.vup, a.jup, a.kaup, a.kcup>>
        quantum_low == <<a.vlow, a.jlow, a.kalow, a.kclow>>
        found(low_i, up_i) ==
            [exc |-> NoExc, low_i |-> low_i, up_i |-> up_i,
             radiat_trans |-> getTransInfo(mol, low_i, up_i)]
    IN  IF ~mol.spec_indices
        THEN found(a.jlow + a.vlow * mol.ny_low + 1,
                   a.jup + a.vup * mol.ny_low + 1)
        ELSE IF rows(quantum_up) = {} \/ rows(quantum_low) = {}
        THEN [exc |-> ValueError, low_i |-> 0, up_i |-> 0,
              radiat_trans |-> FalseV]
        ELSE found(first(quantum_low), first(quantum_up))

\* Transition(molecule, ..., frequency=None): the object is made when
\* __setIndices returns; on radiat_trans False the constructor stops at
\* raw_input(..) and the program waits for a line on stdin
NewFromTable(a, mol) ==
    LET r == setIndices(a, mol)
        made == r.exc = NoExc /\ r.radiat_trans # FalseV
    IN
    /\ tlast.exc # Prompt
    /\ Len(pool) < MaxTrans
    /\ pool' = IF made THEN Append(pool, Transition(a, NoneV)) ELSE pool
    /\ tlast' = [op |-> "Transition",
                 arg |-> <<Len(pool) + 1, <<"indices", r.low_i, r.up_i>>>>,
                 exc |-> IF r.exc # NoExc THEN r.exc
                         ELSE IF made THEN NoExc ELSE Prompt,
                 val |-> r.radiat_trans, loc |-> NoSearch,
                 pool |-> pool, lists |-> lists]
    /\ UNCHANGED <<lists, ncalls, starvars>>

\* raw_input returns the line typed, and float(self.radiat_trans[..]) on
\* False raises TypeError; or stdin is at its end and raw_input raises
\* EOFError
RawInput(reply) ==
    /\ tlast.exc = Prompt
    /\ tlast' = [tlast EXCEPT !.exc = IF reply = "eof" THEN EOFError
                                      ELSE TypeError]
    /\ UNCHANGED <<pool, lists, ncalls, starvars>>

NextIndices ==
    \/ \E a \in TransArgs, mol \in Molecules : NewFromTable(a, mol)
    \/ \E reply \in {"line", "eof"} : RawInput(reply)

SpecIndices == InitTransition /\ [][NextIndices]_vars

NextTransition ==
    \/ \E a \in TransArgs, withfile \in BOOLEAN : NewTransition(a, withfile)
    \/ \E l \in Lists(1..Len(pool)) : l # <<>> /\ CheckUniqueness(l)
    \/ \E i \in 1..Len(pool) : SetModelId(i, S("model_2026-01-01h00-00-00"))

SpecTransition == InitTransition /\ [][NextTransition]_vars

\* Transition(molecule, ..., vexp=vexp, datafiles=datafiles), datafiles None
\* or the name of a file
NewObserved(a, datafiles) ==
    LET tm == IF datafiles = NoneV
              THEN TMachine(Append(pool, Transition(a, NoneV)), lists)
              ELSE TMachine(Append(pool, Transition(a, Ref(Len(lists) + 1))),
                            Append(lists, <<datafiles[2]>>)) IN
    /\ ncalls < MaxMatchOps
    /\ Len(pool) < MaxObjects
    /\ pool' = tm.pool
    /\ lists' = tm.lists
    /\ tlast' = TOutcome("Transition", <<Len(pool) + 1, datafiles>>, tm, pool, lists)
    /\ ncalls' = ncalls + 1
    /\ UNCHANGED starvars

\* trans.setModelId(model_id), the model there or failed
SetModel(i, model_id) ==
    LET tm == setModelId(TMachine(pool, lists), i, model_id) IN
    /\ ncalls < MaxMatchOps
    /\ pool' = tm.pool
    /\ lists' = tm.lists
    /\ tlast' = TOutcome("setModelId", <<i, model_id>>, tm, pool, lists)
    /\ ncalls' = ncalls + 1
    /\ UNCHANGED starvars

\* trans.setVexp(vexp)
SetVexp(i, vexp) ==
    LET tm == setVexp(TMachine(pool, lists), i, vexp) IN
    /\ ncalls < MaxMatchOps
    /\ pool' = tm.pool
    /\ lists' = tm.lists
    /\ tlast' = TOutcome("setVexp", <<i, vexp>>, tm, pool, lists)
    /\ ncalls' = ncalls + 1
    /\ UNCHANGED starvars

\* trans.readData(vlsr)
ReadData(i, vlsr) ==
    LET tm == readData(TMachine(pool, lists), i, vlsr) IN
    /\ ncalls < MaxMatchOps
    /\ pool' = tm.pool
    /\ lists' = tm.lists
    /\ tlast' = TOutcome("readData", <<i, vlsr>>, tm, pool, lists)
    /\ ncalls' = ncalls + 1
    /\ UNCHANGED starvars

\* trans.readSphinx()
ReadSphinx(i) ==
    LET tm == readSphinx(TMachine(pool, lists), i) IN
    /\ ncalls < MaxMatchOps
    /\ pool' = tm.pool
    /\ lists' = tm.lists
    /\ tlast' = TOutcome("readSphinx", <<i, NoneV>>, tm, pool, lists)
    /\ ncalls' = ncalls + 1
    /\ UNCHANGED starvars

\* trans.setData(other)
SetData(i, trans) ==
    LET tm == setData(TMachine(pool, lists), i, trans) IN
    /\ ncalls < MaxMatchOps
    /\ pool' = tm.pool
    /\ lists' = tm.lists
    /\ tlast' = TOutcome("setData", <<i, <<"trans", trans>>>>, tm, pool, lists)
    /\ ncalls' = ncalls + 1
    /\ UNCHANGED starvars

\* trans.getBestVlsr(vlsr)
GetBestVlsr(i, vlsr) ==
    LET tm == getBestVlsr(TMachine(pool, lists), i, vlsr) IN
    /\ ncalls < MaxMatchOps
    /\ pool' = tm.pool
    /\ lists' = tm.lists
    /\ tlast' = TOutcome("getBestVlsr", <<i, vlsr>>, tm, pool, lists)
    /\ ncalls' = ncalls + 1
    /\ UNCHANGED starvars

\* trans.getIntTmbSphinx(), ..., trans.getLoglikelihood(vlsr)
Getter(i, method, vlsr) ==
    LET tm == callGetter(TMachine(pool, lists), i, method, vlsr) IN
    /\ ncalls < MaxMatchOps
    /\ pool' = tm.pool
    /\ lists' = tm.lists
    /\ tlast' = TOutcome(method, <<i, vlsr>>, tm, pool, lists)
    /\ ncalls' = ncalls + 1
    /\ UNCHANGED starvars

NextMatch ==
    \/ \E a \in MatchArgs, df \in {NoneV, Str("a.dat"), Str("b.fits"), Str("c.dat")} :
           NewObserved(a, df)
    \/ \E i \in 1..Len(pool), id \in {S("model_2026-01-01h00-00-00"), S("")} :
           SetModel(i, id)
    \/ \E i \in 1..Len(pool) : SetVexp(i, N(GridPoints - 1))
    \/ \E i \in 1..Len(pool), vlsr \in Vlsrs : ReadData(i, vlsr)
    \/ \E i \in 1..Len(pool) : ReadSphinx(i)
    \/ \E i \in 1..Len(pool), j \in 1..Len(pool) : i # j /\ SetData(i, j)
    \/ \E i \in 1..Len(pool), vlsr \in Vlsrs : GetBestVlsr(i, vlsr)
    \/ \E i \in 1..Len(pool) :
           \/ \E method \in {"getIntTmbSphinx", "getPeakTmbSphinx"} :
                  Getter(i, method, NoneV)
           \/ \E method \in {"getIntTmbData", "getPeakTmbData",
                               "getLoglikelihood"}, vlsr \in Vlsrs :
                  Getter(i, method, vlsr)

SpecMatch == InitTransition /\ [][NextMatch]_vars

\* one transition, as its constructor leaves it: made with the data file df
InitObserved ==
    /\ NoStar
    /\ \E a \in MatchArgs, df \in {"a.dat", "b.fits"} :
           /\ pool = <<Transition(a, Ref(1))>>
           /\ lists = <<<<df>>>>
           /\ tlast = TOutcome("Transition", <<1, Str(df)>>,
                               TMachine(pool, lists), <<>>, <<>>)
    /\ ncalls = 0

\* the calls that fit the model to the data of that transition
NextObserved ==
    \/ \E i \in 1..Len(pool), id \in {S("model_2026-01-01h00-00-00"), S("")} :
           SetModel(i, id)
    \/ \E i \in 1..Len(pool) : SetVexp(i, N(GridPoints - 1))
    \/ \E i \in 1..Len(pool) : ReadSphinx(i)
    \/ \E i \in 1..Len(pool), vlsr \in Vlsrs : GetBestVlsr(i, vlsr)

SpecObserved == InitObserved /\ [][NextObserved]_vars

\* trans.addDatafile(datafile), datafile the name of a file or the list of
\* another transition
AddDatafile(i, datafile) ==
    LET tm == addDatafile(TMachine(pool, lists), i, datafile) IN
    /\ ncalls < MaxMatchOps
    /\ pool' = tm.pool
    /\ lists' = tm.lists
    /\ tlast' = TOutcome("addDatafile", <<i, datafile>>, tm, pool, lists)
    /\ ncalls' = ncalls + 1
    /\ UNCHANGED starvars

\* every call that changes a transition after its construction
NextIdentity ==
    \/ NextMatch
    \/ \E i \in 1..Len(pool),
          datafile \in {Str("c.dat")} \cup {pool[j].datafiles : j \in 1..Len(pool)} :
           AddDatafile(i, datafile)

SpecIdentity == InitTransition /\ [][NextIdentity]_vars

\* one transition, made without data files
InitUnobserved ==
    /\ NoStar
    /\ \E a \in MatchArgs :
           /\ pool = <<Transition(a, NoneV)>>
           /\ lists = <<>>
           /\ tlast = TOutcome("Transition", <<1, NoneV>>,
                               TMachine(pool, lists), <<>>, <<>>)
    /\ ncalls = 0

\* the calls on it until its data file is there: no call reads data but
\* getBestVlsr
NextUnobserved ==
    \/ \E i \in 1..Len(pool), id \in {S("model_2026-01-01h00-00-00"), S("")} :
           SetModel(i, id)
    \/ \E i \in 1..Len(pool), vlsr \in Vlsrs : GetBestVlsr(i, vlsr)
    \/ \E i \in 1..Len(pool), df \in {"a.dat", "b.fits"} : AddDatafile(i, Str(df))

SpecUnobserved == InitUnobserved /\ [][NextUnobserved]_vars

\* star.calcGAS_LINES(), which derives the entry when the star has none
CalcGasLines(star, order) ==
    LET tm == IF gas_lines = Absent
              THEN calcGAS_LINES(TMachine(pool, lists), star, order)
              ELSE TMachine(pool, lists) IN
    /\ ncalls < MaxCalls
    /\ pool' = tm.pool
    /\ lists' = tm.lists
    /\ gas_lines' = IF gas_lines = Absent THEN L(tm.val) ELSE gas_lines
    /\ tlast' = TOutcome("calcGAS_LINES", <<"star", star, order>>,
                         [tm EXCEPT !.val = NoneV], pool, lists)
    /\ ncalls' = ncalls + 1
    /\ UNCHANGED <<store, env, last, prev, nops>>

NextGasLines == \E star \in Stars, order \in Orders : CalcGasLines(star, order)

SpecGasLines == InitTransition /\ [][NextGasLines]_vars


\* ================================================================== claims
HasRule(k) == k \notin LeafNames
WasAbsent(k) == last.pre[k] = Absent
Objects == 1..Len(pool)

\* C1: a read of a name that holds the volatile marker '%' invokes the rule
\* of that name again, and after the read the store holds '%' under the name
\* again.
C1_VolatileStaysVolatile ==
    (last.op = "get" /\ last.pre[last.key] = Marker) =>
        /\ store[last.key] = Marker
        /\ HasRule(last.key) => Len(last.log) > 0

\* C2: the first read of an absent name whose rule succeeds invokes the rule
\* and stores the value it returns; a second read of the same name right
\* after it returns the same value, invokes no rule and changes nothing.
C2_SecondReadUsesStoredValue ==
    (/\ prev.op = "get" /\ prev.exc = NoExc /\ prev.pre[prev.key] = Absent
     /\ last.op = "get" /\ last.key = prev.key) =>
        /\ Len(prev.log) > 0
        /\ last.pre[prev.key] = prev.val
        /\ last.exc = NoExc
        /\ last.val = prev.val
        /\ last.log = <<>>
        /\ store = last.pre

C2_Witness ==
    /\ prev.op = "get" /\ prev.exc = NoExc /\ prev.pre[prev.key] = Absent
    /\ prev.key = "R_OUTER_DUST" /\ Len(prev.log) > 1
    /\ last.op = "get" /\ last.key = prev.key

\* C3: a read fails with KeyError only when the store holds no entry for the
\* name after the rule was dispatched; it never fails for a name present
\* with a value other than the marker, and it does fail when the name is
\* absent and stays absent.
C3_KeyErrorOnlyWhenNoEntry ==
    last.op = "get" =>
        /\ last.exc[1] = "KeyError" => store[last.key] = Absent
        /\ last.pre[last.key] \notin {Absent, Marker} => last.exc = NoExc
        /\ (WasAbsent(last.key) /\ store[last.key] = Absent) => last.exc # NoExc

\* the names a rule derives
Targets(r) ==
    CASE r[1] = "calcTLR"   -> TLRNames
      [] r[1] = "checkT"    -> Prefixed("T_DES_") \cup Prefixed("R_DES_")
      [] r[1] = "calcT_DES" -> {"T_DESA_" \o r[2], "T_DESB_" \o r[2]}
      [] OTHER              -> {r[2]}

\* C4: a rule called while a name it derives is present leaves the value
\* stored under that name as it was.
C4_RuleKeepsPresentTarget ==
    last.op = "call" =>
        \A k \in Targets(last.arg) :
            last.pre[k] # Absent => store[k] = last.pre[k]

\* C5: a read of an absent name neither overwrites nor deletes an entry of
\* another name that was present before the read.
C5_ReadOnlyAddsEntries ==
    (last.op = "get" /\ WasAbsent(last.key)) =>
        \A k \in Names \ {last.key} :
            last.pre[k] # Absent => store[k] = last.pre[k]

\* C6 (amended): after star[name] = v with v other than the marker '%', the
\* next read of name returns v, invokes no rule and changes nothing.
C6_SetThenGetExplicit ==
    (/\ prev.op = "set" /\ prev.arg # Marker
     /\ last.op = "get" /\ last.key = prev.key) =>
        /\ last.exc = NoExc
        /\ last.val = prev.arg
        /\ last.log = <<>>
        /\ store = last.pre

C6_Witness ==
    /\ prev.op = "set" /\ prev.arg = N(1) /\ prev.key = "T_STAR"
    /\ prev.pre[prev.key] = Marker
    /\ last.op = "get" /\ last.key = prev.key /\ last.val = N(1)

\* C6 as stated: after star[name] = v for any v, the next read of name
\* returns v and invokes no rule.
C6_SetThenGetAnyValue ==
    (/\ prev.op = "set"
     /\ last.op = "get" /\ last.key = prev.key) =>
        /\ last.exc = NoExc
        /\ last.val = prev.arg
        /\ last.log = <<>>

\* the read of last.key on the store before the call with the entry removed
FreshRead ==
    getitem(Machine([last.pre EXCEPT ![last.key] = Absent], env),
            last.key, MaxDepth)

\* C7: a read of a volatile name that returns gives the value the rule
\* derives during this read (not the marker, not an earlier value), and the
\* store holds the marker, not that value, afterwards.
C7_VolatileReadIsFresh ==
    (last.op = "get" /\ last.pre[last.key] = Marker /\ last.exc = NoExc) =>
        /\ last.val # Marker
        /\ Len(last.log) > 0
        /\ last.val = FreshRead.val
        /\ store[last.key] = Marker

C7_Witness ==
    /\ prev.op = "get" /\ prev.key = "T_STAR" /\ prev.exc = NoExc
    /\ last.op = "get" /\ last.key = "T_STAR"
    /\ last.pre[last.key] = Marker /\ last.exc = NoExc
    /\ last.val = F("T(L,R)", <<N(1), N(1)>>)


\* the attributes the descriptor names, as they are stored
Descriptor(t) ==
    <<t.molecule, t.vup, t.jup, t.kaup, t.kcup, t.vlow, t.jlow, t.kalow,
      t.kclow, t.telescope, t.offset>>

\* what the snapshot of makeDict is made of
Snapshot(t) ==
    <<t.molecule.molecule_full, t.vup, t.jup, t.kaup, t.kcup, t.vlow, t.jlow,
      t.kalow, t.kclow, t.telescope, Fmt2(t.offset), t.n_quad,
      t.use_maser_in_sphinx>>

\* C8 as stated: two transitions are equal (== true, != false, equal hash)
\* exactly when molecule, quantum numbers, telescope and offset are equal;
\* n_quad, use_maser_in_sphinx, data files and model id have no influence.
C8_EqualIffDescriptor ==
    \A i, j \in Objects :
        (eq(pool[i], pool[j]) /\ ~ne(pool[i], pool[j])
         /\ hash(pool[i]) = hash(pool[j]))
        <=> Descriptor(pool[i]) = Descriptor(pool[j])

\* C8 (amended): two transitions are equal (== true, != false), and then
\* hash equally, exactly when the molecule's full name, the quantum numbers,
\* the telescope, the offset printed with two decimals, n_quad and
\* use_maser_in_sphinx are equal; data files and model id have no influence.
C8_EqualIffSnapshot ==
    \A i, j \in Objects :
        LET same == Snapshot(pool[i]) = Snapshot(pool[j]) IN
        /\ eq(pool[i], pool[j]) = same
        /\ ne(pool[i], pool[j]) = ~same
        /\ same => hash(pool[i]) = hash(pool[j])

C8_Witness ==
    \E i, j, k \in Objects :
        /\ eq(pool[i], pool[j])
        /\ pool[i].offset # pool[j].offset
        /\ pool[i].datafiles # pool[j].datafiles
        /\ pool[i].model_id # pool[j].model_id
        /\ Descriptor(pool[i]) = Descriptor(pool[k])
        /\ pool[i].n_quad # pool[k].n_quad
        /\ ne(pool[i], pool[k])

\* the data files, before the call, of the transitions of xs equal to rep
RECURSIVE FilesOfEqual(_, _)
FilesOfEqual(xs, rep) ==
    IF xs = <<>> THEN <<>>
    ELSE (IF eq(tlast.pool[Head(xs)], tlast.pool[rep])
          THEN Files(tlast.lists, tlast.pool[Head(xs)].datafiles)
          ELSE <<>>)
         \o FilesOfEqual(Tail(xs), rep)

Returned == tlast.op = "checkUniqueness" /\ tlast.exc = NoExc

\* C9: after checkUniqueness(xs) the data files of each transition returned
\* are the data files of the transitions of xs equal to it, in the order of
\* xs, none dropped and none repeated.
C9_MergedFilesAreThoseOfEquals ==
    Returned =>
        \A k \in 1..Len(tlast.val) :
            Files(lists, pool[tlast.val[k]].datafiles)
                = FilesOfEqual(tlast.arg, tlast.val[k])

\* the positions of xs that hold the first transition of their class
FirstPositions(xs) ==
    {p \in 1..Len(xs) :
        \A q \in 1..(p - 1) : ~eq(tlast.pool[xs[q]], tlast.pool[xs[p]])}

\* C10: checkUniqueness(xs) returns no two equal transitions and, for every
\* class of equal transitions of xs, its first object, in the order of first
\* occurrence in xs.
C10_FirstOfEachClassInOrder ==
    Returned =>
        LET xs == tlast.arg
            out == tlast.val
        IN  /\ \A a, b \in 1..Len(out) :
                   a # b => ~eq(pool[out[a]], pool[out[b]])
            /\ Len(out) = Cardinality(FirstPositions(xs))
            /\ \A a \in 1..Len(out) :
                   \E p \in FirstPositions(xs) :
                       /\ xs[p] = out[a]
                       /\ Cardinality({q \in FirstPositions(xs) : q < p}) = a - 1

C10_Witness ==
    /\ Returned
    /\ Len(tlast.arg) = 3
    /\ Len(tlast.val) = 2
    /\ tlast.val = <<tlast.arg[1], tlast.arg[2]>>
    /\ eq(pool[tlast.arg[3]], pool[tlast.arg[1]])

\* the call of a purge, its lists and the names it is to remove
PurgedMCMax == last.op = "removeMutableMCMax"
PurgedGastronoom == last.op = "removeMutableGastronoom"
ToRemove == last.arg[2] \ last.arg[3]

\* C13: when removeMutableMCMax(mutable, var_pars) returns, every entry
\* whose name is in var_pars is present with the value it had before.
C13_VarParsSurviveMCMax ==
    (PurgedMCMax /\ last.exc = NoExc) =>
        \A k \in last.arg[3] :
            last.pre[k] # Absent => store[k] = last.pre[k]

\* C14: when removeMutableMCMax(mutable, var_pars) returns, no name that is
\* in mutable and not in var_pars has an entry in the store.
C14_MutablesGoneAfterMCMax ==
    (PurgedMCMax /\ last.exc = NoExc) =>
        \A k \in ToRemove : store[k] = Absent

\* C15: removeMutableGastronoom(mutable, var_pars) returns, the store after
\* it is the store before it without the names that are in mutable and not
\* in var_pars, and no rule is invoked.
C15_GastronoomRemovesExactly ==
    PurgedGastronoom =>
        /\ last.exc = NoExc
        /\ store = [k \in Names |->
                       IF k \in ToRemove THEN Absent ELSE last.pre[k]]
        /\ last.log = <<>>

C15_Witness ==
    /\ PurgedGastronoom
    /\ \E k \in last.arg[2] \cap last.arg[3] :
           last.pre[k] # Absent /\ store[k] = last.pre[k]
    /\ \E k \in ToRemove : last.pre[k] # Absent /\ store[k] = Absent
    /\ \E k \in Names \ last.arg[2] : store[k] = Marker

\* the latest call on a transition: the object, before and after the call
Self == tlast.arg[1]
Before == tlast.pool[Self]
After == pool[Self]
OnObject == tlast.op \notin {"init", "Transition"}
Searched == OnObject /\ tlast.loc.searched
DataGetters == {"getIntTmbData", "getPeakTmbData", "getLoglikelihood"}
SphinxGetters == {"getIntTmbSphinx", "getPeakTmbSphinx"}
\* no observed profile is there and none can be read
DataMissing ==
    IF Before.lpdata = NoneV THEN Files(tlast.lists, Before.datafiles) = <<>>
    ELSE Before.lpdata[2] = <<>>
\* no modelled profile is there and none can be read
ModelMissing == Before.sphinx = NoneV /\ Before.model_id \in {NoneV, S("")}

\* C16 (as stated): a request for one of the five matched-only quantities
\* on a transition whose best_vlsr is unset and whose data or model is
\* missing returns None and raises no error.
C16_UnmatchedGivesNone ==
    (/\ OnObject /\ tlast.op \in DataGetters \cup SphinxGetters
     /\ Before.best_vlsr = NoneV /\ (DataMissing \/ ModelMissing)) =>
        tlast.exc = NoExc /\ tlast.val = NoneV

\* C16 (amended): getIntTmbData, getPeakTmbData and getLoglikelihood return
\* None and raise no error when best_vlsr is unset and the data, the model
\* or vexp is missing; getIntTmbSphinx and getPeakTmbSphinx return None and
\* raise no error when the model is missing.
C16_NoneWhenInputsMissing ==
    /\ (/\ OnObject /\ tlast.op \in DataGetters /\ Before.best_vlsr = NoneV
        /\ (DataMissing \/ ModelMissing \/ Before.vexp = NoneV)) =>
           tlast.exc = NoExc /\ tlast.val = NoneV
    /\ (OnObject /\ tlast.op \in SphinxGetters /\ ModelMissing) =>
           tlast.exc = NoExc /\ tlast.val = NoneV

C16_Witness ==
    /\ OnObject /\ tlast.op = "getLoglikelihood"
    /\ ~DataMissing /\ ModelMissing /\ Before.vexp # NoneV
    /\ tlast.arg[2] = N(4)
    /\ tlast.val = NoneV

\* C17: when getBestVlsr reaches the grid search, best_vlsr is the first
\* candidate in grid order whose chi-squared is minimal, and chi2_best_vlsr
\* and dtmb_best_vlsr are the chi-squared and the interpolated flux of that
\* candidate.
C17_FirstMinimumRecorded ==
    Searched =>
        \E k \in 1..Len(tlast.loc.chisquared) :
            /\ \A j \in 1..Len(tlast.loc.chisquared) :
                   ~Less(tlast.loc.chisquared[j], tlast.loc.chisquared[k])
            /\ \A j \in 1..(k - 1) :
                   Less(tlast.loc.chisquared[k], tlast.loc.chisquared[j])
            /\ After.best_vlsr = N(tlast.loc.range_in_vlsr[k])
            /\ After.chi2_best_vlsr = tlast.loc.chisquared[k]
            /\ After.dtmb_best_vlsr = L(tlast.loc.dtmb_interp[k])

C17_Witness ==
    /\ Searched /\ tlast.op = "getBestVlsr"
    /\ \E k \in 1..GridPoints, j \in 1..GridPoints :
           /\ k < j
           /\ After.best_vlsr = N(tlast.loc.range_in_vlsr[k])
           /\ tlast.loc.chisquared[j] = tlast.loc.chisquared[k]

\* C18 (as stated): the grid of getBestVlsr(vlsr) has 31 uniformly spaced
\* candidates from vlsr - 0.5*vexp to vlsr + 0.5*vexp, vlsr being the
\* velocity passed to the call, and the returned velocity is one of them.
C18_GridAroundPassedVlsr ==
    (Searched /\ tlast.op = "getBestVlsr") =>
        /\ tlast.arg[2] # NoneV
        /\ Len(tlast.loc.range_in_vlsr) = 31
        /\ 2 * tlast.loc.range_in_vlsr[1] = 2 * tlast.arg[2][2] - After.vexp[2]
        /\ 2 * tlast.loc.range_in_vlsr[31] = 2 * tlast.arg[2][2] + After.vexp[2]
        /\ \E k \in 1..31 : tlast.val = N(tlast.loc.range_in_vlsr[k])

\* C18 (amended): the grid has 31 uniformly spaced candidates from
\* nominal - 0.5*vexp to nominal + 0.5*vexp, nominal being the velocity of
\* the first observed profile (the header velocity of a fits file, the vlsr
\* the data were read with for a text file), and the best velocity is one of
\* them.
C18_GridAroundDataVlsr ==
    Searched =>
        LET grid == tlast.loc.range_in_vlsr
            nominal == After.lpdata[2][1].vlsr[2]
        IN  /\ Len(grid) = 31
            /\ 2 * grid[1] = 2 * nominal - After.vexp[2]
            /\ 2 * grid[31] = 2 * nominal + After.vexp[2]
            /\ \A k \in 1..30 : grid[k + 1] - grid[k] = grid[2] - grid[1]
            /\ \E k \in 1..31 : After.best_vlsr = N(grid[k])
            /\ tlast.op = "getBestVlsr" => tlast.val = After.best_vlsr

C18_Witness ==
    /\ Searched /\ tlast.op = "getBestVlsr"
    /\ tlast.arg[2] = N(4)
    /\ After.lpdata[2][1].vlsr = N(0)
    /\ tlast.loc.range_in_vlsr[1] = -15

\* the samples of candidate k that are not below -noise, and the sum of the
\* squared residuals over a set of samples
Kept(k) ==
    {j \in 1..Len(tlast.loc.mtmb) :
        tlast.loc.dtmb_interp[k][j] >= -tlast.loc.noise}
RECURSIVE SumSq(_, _, _)
SumSq(d, m, J) ==
    IF J = {} THEN 0
    ELSE LET j == CHOOSE x \in J : TRUE
         IN  (d[j] - m[j]) * (d[j] - m[j]) + SumSq(d, m, J \ {j})

\* C19: for every candidate the chi-squared is the sum over exactly the
\* samples whose interpolated flux is not below -noise, data and model at
\* the same indices: samples below -noise add nothing, samples above
\* +noise are counted.
C19_ClippedBelowOnly ==
    Searched =>
        \A k \in 1..Len(tlast.loc.chisquared) :
            tlast.loc.chisquared[k] =
                Q(SumSq(tlast.loc.dtmb_interp[k], tlast.loc.mtmb, Kept(k)),
                  tlast.loc.noise * tlast.loc.noise)

C19_Witness ==
    /\ Searched
    /\ \E k \in 1..GridPoints :
           /\ \E j \in 1..5 : tlast.loc.dtmb_interp[k][j] < -tlast.loc.noise
           /\ \E j \in 1..5 : tlast.loc.dtmb_interp[k][j] = -tlast.loc.noise
           /\ \E j \in 1..5 : tlast.loc.dtmb_interp[k][j] > tlast.loc.noise
           /\ tlast.loc.chisquared[k][2] > 0

\* C20: getBestVlsr(vlsr) on a transition without data files and without
\* observed profiles returns vlsr, and the transition stays unmatched:
\* best_vlsr is None, no chi-squared and no interpolated flux is recorded.
C20_NoDataStaysUnmatched ==
    (OnObject /\ tlast.op = "getBestVlsr" /\ DataMissing) =>
        /\ tlast.exc = NoExc
        /\ tlast.val = tlast.arg[2]
        /\ ~tlast.loc.searched
        /\ After.best_vlsr = NoneV
        /\ After.chi2_best_vlsr = Absent
        /\ After.dtmb_best_vlsr = Absent

C20_Witness ==
    /\ OnObject /\ tlast.op = "getBestVlsr" /\ DataMissing
    /\ Before.model_id = S("model_2026-01-01h00-00-00")
    /\ Before.vexp # NoneV
    /\ tlast.arg[2] = N(4)
    /\ tlast.val = N(4)

\* the first derivation of GAS_LINES: the star it ran on, the objects of the
\* entry, and the objects made from the data files and from the requests
Derived == tlast.op = "calcGAS_LINES" /\ ncalls = 1
DerivedStar == tlast.arg[2]
WithData == DerivedStar.PATH_GAS_DATA # "" /\ DerivedStar.DATA_MOL # 0
FromData == IF WithData THEN 1..Len(DerivedStar.data_list) ELSE {}
FromRequests == (1..Len(pool)) \ FromData
Entry == {gas_lines[2][k] : k \in 1..Len(gas_lines[2])}
FilesOf(i) ==
    {Files(lists, pool[i].datafiles)[k] :
        k \in 1..Len(Files(lists, pool[i].datafiles))}

C12_DataFilesKept ==
    (Derived /\ tlast.exc = NoExc) =>
        \A k \in FromData :
            \E g \in Entry :
                /\ eq(pool[g], pool[k])
                /\ DerivedStar.data_list[k].raw \in FilesOf(g)



\* C21 (as stated): getBestVlsr on an unmatched transition that has an
\* observed profile and whose model id is unset or empty, or whose vexp is
\* unset, returns the velocity of the first observed dataset and records
\* nothing: best_vlsr, chi2_best_vlsr and dtmb_best_vlsr stay unset.
C21_DataVlsrWhenNoModelId ==
    (/\ OnObject /\ tlast.op = "getBestVlsr"
     /\ Before.best_vlsr = NoneV /\ ~DataMissing
     /\ (Before.model_id \in {NoneV, S("")} \/ Before.vexp = NoneV)) =>
        /\ tlast.exc = NoExc
        /\ tlast.val = After.lpdata[2][1].vlsr
        /\ After.best_vlsr = NoneV
        /\ After.chi2_best_vlsr = Absent /\ After.dtmb_best_vlsr = Absent

\* C21 (amended): the same outcome when no modelled profile is held and
\* none can be read (model id unset or empty), or vexp is unset.
C21_DataVlsrWhenNoModel ==
    (/\ OnObject /\ tlast.op = "getBestVlsr"
     /\ Before.best_vlsr = NoneV /\ ~DataMissing
     /\ (ModelMissing \/ Before.vexp = NoneV)) =>
        /\ tlast.exc = NoExc
        /\ tlast.val = After.lpdata[2][1].vlsr
        /\ After.best_vlsr = NoneV
        /\ After.chi2_best_vlsr = Absent /\ After.dtmb_best_vlsr = Absent

\* a call with vexp set and an empty model id on b.fits, whose header gives
\* another velocity than the one passed
C21_Witness ==
    /\ OnObject /\ tlast.op = "getBestVlsr"
    /\ Before.best_vlsr = NoneV /\ ~DataMissing
    /\ ModelMissing /\ Before.model_id = S("") /\ Before.vexp # NoneV
    /\ tlast.arg[2] = N(4) /\ tlast.val = N(3)
    /\ After.best_vlsr = NoneV


\* the names whose rule reads solver output: calcR_INNER_DUST, calcDENSTYPE,
\* calcR_MAX, calcR_OUTER_EFFECTIVE and calcDUST_TO_GAS_ITERATED
ReadingNames ==
    {"R_INNER_DUST", "DENSTYPE", "R_OUTER_EFFECTIVE", "DUST_TO_GAS_ITERATED"}
    \cup Prefixed("R_MAX_")

\* C22: a get of a name whose rule reads solver output never ends in an
\* IOError: the rule absorbs the unavailable read.
C22_IOErrorAbsorbed ==
    (last.op = "get" /\ last.key \in ReadingNames) => last.exc # IOError


\* C23: a Transition constructed without a frequency for which getTransInfo
\* returns False fails at once: the call has ended with an error, it is not
\* waiting for input, and the pool holds no new object.
C23_FailsAtOnce ==
    (tlast.op = "Transition" /\ tlast.val = FalseV
     /\ tlast.exc # ValueError) =>
        /\ tlast.exc \notin {NoExc, Prompt}
        /\ pool = tlast.pool


\* a get of one of T_STAR, L_STAR, R_STAR that finds it absent and the two
\* others present; the value Stefan-Boltzmann's law gives for it
ThirdMissing ==
    /\ last.op = "get" /\ last.key \in TLRNames
    /\ last.pre[last.key] = Absent
    /\ \A k \in TLRNames \ {last.key} : last.pre[k] # Absent
Solved(st, key) ==
    CASE key = "T_STAR" -> F("T(L,R)", <<st["L_STAR"], st["R_STAR"]>>)
      [] key = "L_STAR" -> F("L(R,T)", <<st["R_STAR"], st["T_STAR"]>>)
      [] key = "R_STAR" -> F("R(L,T)", <<st["L_STAR"], st["T_STAR"]>>)
AllThree ==
    /\ last.op = "call" /\ last.arg = <<"calcTLR", "">>
    /\ \A k \in TLRNames : last.pre[k] # Absent

\* C24 (as stated): with exactly two of T_STAR, L_STAR, R_STAR present a
\* get of the third returns and stores the value computed from the two and
\* changes no other entry; with all three present calcTLR changes nothing.
C24_ThirdFromTwoPresent ==
    /\ ThirdMissing =>
           /\ last.exc = NoExc
           /\ last.val = Solved(last.pre, last.key)
           /\ store = [last.pre EXCEPT ![last.key] = last.val]
    /\ AllThree => (last.exc = NoExc /\ store = last.pre)


\* C24 (amended): the same when the two present values are numbers, not
\* the marker of a volatile entry.
C24_ThirdFromTwoNumbers ==
    /\ (ThirdMissing
        /\ \A k \in TLRNames \ {last.key} : IsNum(last.pre[k])) =>
           /\ last.exc = NoExc
           /\ last.val = Solved(last.pre, last.key)
           /\ store = [last.pre EXCEPT ![last.key] = last.val]
    /\ AllThree => (last.exc = NoExc /\ store = last.pre)

\* R_STAR solved from a luminosity and a temperature that the caller set
C24_Witness ==
    /\ ThirdMissing /\ last.key = "R_STAR"
    /\ last.pre["L_STAR"] = N(1) /\ last.pre["T_STAR"] = N(1)
    /\ store["R_STAR"] = F("R(L,T)", <<N(1), N(1)>>)
    /\ last.val = store["R_STAR"]

\* a get of one of the three names on a store holding fewer than two of them
FewerThanTwo ==
    /\ last.op = "get" /\ last.key \in TLRNames
    /\ Cardinality({k \in TLRNames : last.pre[k] # Absent}) < 2

\* the read went from calcTLR into calcTLR, nothing else, down to the
\* recursion limit, and no entry that held a value was changed on the way
OnlyReentered ==
    /\ last.exc = RuntimeError
    /\ Len(last.log) >= 2
    /\ \A i \in 1..Len(last.log) : last.log[i] = "calcTLR"
    /\ \A k \in Names : store[k] = last.pre[k] \/ last.pre[k] = Marker

Survivors == {tlast.val[k] : k \in 1..Len(tlast.val)}
Discarded == (1..Len(pool)) \ Survivors

\* C26: after checkUniqueness the list of data files of a transition it
\* returned is the list of no transition it did not return, and the call
\* leaves the data files of every transition it did not return as they were.
C26_SurvivorOwnsItsList ==
    Returned =>
        \A d \in Discarded :
            /\ \A s \in Survivors :
                   pool[s].datafiles = NoneV
                   \/ pool[s].datafiles # pool[d].datafiles
            /\ pool[d].datafiles = tlast.pool[d].datafiles
            /\ Files(lists, pool[d].datafiles)
                   = Files(tlast.lists, tlast.pool[d].datafiles)

\* C27: no call of addDatafile, setModelId, setVexp, setData, readData,
\* readSphinx or getBestVlsr changes the hash of a transition or the outcome
\* of comparing it (==, !=) with any other transition: after every call
\* these are what they were before the call.
C27_CallsKeepIdentity ==
    \A i, j \in 1..Len(tlast.pool) :
        /\ hash(pool[i]) = hash(tlast.pool[i])
        /\ eq(pool[i], pool[j]) = eq(tlast.pool[i], tlast.pool[j])
        /\ ne(pool[i], pool[j]) = ne(tlast.pool[i], tlast.pool[j])

\* two equal transitions, one of them just matched by getBestVlsr
C27_Witness ==
    /\ tlast.op = "getBestVlsr" /\ Len(pool) = 2
    /\ \E i, j \in 1..Len(pool) :
           /\ i # j /\ eq(pool[i], pool[j])
           /\ tlast.pool[i].best_vlsr = NoneV /\ pool[i].best_vlsr # NoneV
           /\ pool[i].model_id # pool[j].model_id
           /\ pool[i].datafiles # pool[j].datafiles

\* mean(tmb[imid-2:imid+3]) with imid = len(tmb)/2, as the fraction sum / 5
Mean5(tmb) ==
    LET imid == Len(tmb) \div 2
    IN  Q(Sum(SubSeq(tmb, imid - 1, imid + 3)), 5)

\* C28: on a matched transition getPeakTmbSphinx returns the mean of the 5
\* samples at the indices mid-2 .. mid+2 of the modeled profile and
\* getPeakTmbData that mean of the observed profile interpolated at the best
\* vlsr, mid being the length of the profile divided by two, rounded down.
C28_PeakIsMeanOfFive ==
    (OnObject /\ Before.best_vlsr # NoneV) =>
        /\ tlast.op = "getPeakTmbSphinx" =>
               (tlast.exc = NoExc /\ tlast.val = Mean5(SphinxProfile.tmb))
        /\ tlast.op = "getPeakTmbData" =>
               (tlast.exc = NoExc /\ tlast.val = Mean5(Before.dtmb_best_vlsr[2]))

\* the modeled profile at the velocity x, nothing outside its grid
ModelAt(x) ==
    LET mvel == SphinxProfile.velocity IN
    IF x < mvel[1] \/ x > mvel[Len(mvel)] THEN 0
    ELSE interp1d(mvel, SphinxProfile.tmb, x)

\* the first observed profile of the transition is the modeled profile
\* moved to the velocity c
ShiftedCopy(c) ==
    LET data == Profile(After.lpdata[2][1].file) IN
    \A n \in 1..Len(data.velocity) :
        data.flux[n] = ModelAt(data.velocity[n] - c)

\* C29: when the observed profile is an exact copy of the modeled profile
\* at the velocity nominal + d and that velocity is one of the 31 candidates
\* of the grid, getBestVlsr returns it and records a chi-squared of 0.
C29_ShiftedCopyFound ==
    (Searched /\ tlast.op = "getBestVlsr") =>
        \A k \in 1..GridPoints :
            ShiftedCopy(tlast.loc.range_in_vlsr[k]) =>
                /\ tlast.exc = NoExc
                /\ tlast.val = N(tlast.loc.range_in_vlsr[k])
                /\ After.best_vlsr = tlast.val
                /\ After.chi2_best_vlsr = Q(0, tlast.loc.noise * tlast.loc.noise)

\* the line of a.dat lies 2 below the nominal velocity 4 the file was read
\* with
C29_Witness ==
    /\ Searched /\ tlast.op = "getBestVlsr"
    /\ After.lpdata[2][1].vlsr = N(4)
    /\ ShiftedCopy(2) /\ ~ShiftedCopy(4)
    /\ \E k \in 1..GridPoints : tlast.loc.range_in_vlsr[k] = 2
    /\ tlast.val = N(2)
    /\ After.chi2_best_vlsr[2] = 0

\* C30: a Star constructed without entries is an empty mapping and a Star
\* constructed from entries holds exactly these, the same names with the same
\* values: when the constructor has returned the store is the entries given.
C30_ConstructedHoldsInputOnly ==
    last.op = "init" => \E input \in Inputs : store = Dict(input)

\* the star name the rule of STAR_INDEX finds: the entry, or 'model' when
\* the store has none
NameLookedUp ==
    IF last.pre["STAR_NAME"] \in {Absent, Marker} THEN S("model")
    ELSE last.pre["STAR_NAME"]
NameNotListed ==
    NameLookedUp[1] = "s" /\ ~InSeq(StarDat, NameLookedUp[2])

\* C31: when STAR_NAME is not in the list of Star.dat, a get of STAR_INDEX
\* that derives the entry raises nothing, returns -1 and leaves DATA_MOL = 0
\* in the store (and STAR_INDEX = -1, or the marker of a volatile entry).
C31_UnknownStarGivesMinusOne ==
    (/\ last.op = "get" /\ last.key = "STAR_INDEX"
     /\ last.pre["STAR_INDEX"] \in {Absent, Marker}
     /\ NameNotListed) =>
        /\ last.exc = NoExc
        /\ last.val = N(-1)
        /\ store["STAR_INDEX"] =
               (IF last.pre["STAR_INDEX"] = Marker THEN Marker ELSE N(-1))
        /\ store["DATA_MOL"] = N(0)

\* C32: the GAS_LINES entry a get finds in the store once calcGAS_LINES has
\* run, also after a derivation that raised, is sorted by str(trans) and
\* holds as many transitions as distinct str(trans).
C32_StoredGasLinesWellFormed ==
    (gas_lines # Absent /\ ncalls >= 1) =>
        LET g == gas_lines[2] IN
        /\ \A k \in 1..(Len(g) - 1) :
               ~StrLess(str(pool[g[k + 1]]), str(pool[g[k]]))
        /\ Len(g) = Cardinality({str(pool[g[k]]) : k \in 1..Len(g)})

\* key is prefix + a species of the reference list
HasShape(key, prefix) ==
    /\ Len(key) > Len(prefix)
    /\ SubSeq(key, 1, Len(prefix)) = prefix
    /\ SubSeq(key, Len(prefix) + 1, Len(key)) \in SpeciesSet

\* the method the dispatch is to enter for key, "" when there is none
ExpectedRule(key) ==
    IF key \in {"T_STAR", "L_STAR", "R_STAR"} THEN "calcTLR"
    ELSE IF key \in {"A_K", "V_LSR", "STAR_NAME_PLOTS", "STAR_NAME_GASTRONOOM",
                     "LONG", "LAT"} THEN "getClassAttr"
    ELSE IF HasShape(key, "R_MAX_") THEN "calcR_MAX"
    ELSE IF HasShape(key, "R_DES_") THEN "checkT"
    ELSE IF HasShape(key, "T_DESA_") \/ HasShape(key, "T_DESB_") THEN "calcT_DES"
    ELSE IF HasShape(key, "T_DES_") THEN "checkT"
    ELSE IF key \in CalcNames THEN "calc" \o key
    ELSE ""

\* C33: missingInput enters the first rule that matches in the order T/L/R
\* solver, class-reference lookup, R_MAX_<s>, R_DES_<s>, T_DESA_<s> or
\* T_DESB_<s>, T_DES_<s>, then the method calc<name>; a name that matches
\* none, such as a prefix with a suffix that is no listed species, enters no
\* rule and changes nothing.
C33_DispatchByShape ==
    last.op = "missingInput" =>
        IF ExpectedRule(last.key) = ""
        THEN last.log = <<>> /\ last.exc = NoExc /\ store = last.pre
        ELSE last.log # <<>> /\ last.log[1] = ExpectedRule(last.key)

\* misses of T_DESB_SIL and of R_MAX_XYZ, one after the other
C33_Witness ==
    /\ last.op = "missingInput" /\ prev.op = "missingInput"
    /\ prev.key = "T_DESB_SIL" /\ prev.log[1] = "calcT_DES"
    /\ last.key = "R_MAX_XYZ" /\ last.log = <<>>

\* C34: when a get of a name raises, whatever the exception, the store holds
\* no entry for the name afterwards.
C34_FailedGetLeavesNoEntry ==
    (last.op = "get" /\ last.exc # NoExc) => store[last.key] = Absent

\* the data files of the transition before the call
FilesBefore == Files(tlast.lists, Before.datafiles)

\* C35: a getBestVlsr on an unmatched transition for which an earlier call
\* found no data files to read (lpdata is the empty list) and which has data
\* files by now loads these files, one observed profile per file, and
\* matches the transition when the model and vexp are there.
C35_LateDataFilesAreLoaded ==
    (/\ OnObject /\ tlast.op = "getBestVlsr" /\ tlast.arg[2] # NoneV
     /\ Before.best_vlsr = NoneV
     /\ Before.lpdata = L(<<>>) /\ FilesBefore # <<>>) =>
        /\ After.lpdata # NoneV
        /\ Len(After.lpdata[2]) = Len(FilesBefore)
        /\ \A k \in 1..Len(FilesBefore) : After.lpdata[2][k].file = FilesBefore[k]
        /\ (After.sphinx # NoneV /\ After.vexp # NoneV) => After.best_vlsr # NoneV

\* C36: once best_vlsr of a transition is set, no call changes best_vlsr,
\* chi2_best_vlsr or dtmb_best_vlsr of it, and getBestVlsr on it returns
\* best_vlsr whatever velocity is passed and searches no grid.
C36_MatchedIsStable ==
    OnObject =>
        /\ \A j \in 1..Len(tlast.pool) :
               tlast.pool[j].best_vlsr # NoneV =>
                   /\ pool[j].best_vlsr = tlast.pool[j].best_vlsr
                   /\ pool[j].chi2_best_vlsr = tlast.pool[j].chi2_best_vlsr
                   /\ pool[j].dtmb_best_vlsr = tlast.pool[j].dtmb_best_vlsr
        /\ (tlast.op = "getBestVlsr" /\ Before.best_vlsr # NoneV) =>
               /\ tlast.exc = NoExc
               /\ tlast.val = Before.best_vlsr
               /\ ~tlast.loc.searched

\* getBestVlsr(4) on a transition matched at the velocity 2
C36_Witness ==
    /\ OnObject /\ tlast.op = "getBestVlsr"
    /\ Before.best_vlsr = N(2)
    /\ tlast.arg[2] = N(4)
    /\ tlast.val = N(2)

\* checkUniqueness applied once more to the list it has just returned from
Again == checkUniqueness(TMachine(pool, lists), tlast.arg)

\* C37: when checkUniqueness(xs) has returned, checkUniqueness(xs) on the
\* same objects returns the same representatives, and their data files are
\* what they were after the first call.
C37_SecondMergeChangesNothing ==
    Returned =>
        /\ Again.exc = NoExc
        /\ Again.val = tlast.val
        /\ \A k \in 1..Len(tlast.val) :
               Files(Again.lists, Again.pool[tlast.val[k]].datafiles)
                   = Files(lists, pool[tlast.val[k]].datafiles)

\* the objects of the list other than rep that equal rep
DuplicatesOf(rep) ==
    {tlast.arg[p] : p \in 1..Len(tlast.arg)} \cap
    {x \in 1..Len(tlast.pool) : x # rep /\ eq(tlast.pool[x], tlast.pool[rep])}

\* C38: checkUniqueness raises nothing, whichever transitions of the list
\* have no data files (datafiles None), and a representative whose
\* duplicates all have none keeps the data files it had.
C38_MergeNeverRaises ==
    tlast.op = "checkUniqueness" =>
        /\ tlast.exc = NoExc
        /\ \A k \in 1..Len(tlast.val) :
               (\A x \in DuplicatesOf(tlast.val[k]) :
                    tlast.pool[x].datafiles = NoneV) =>
                   Files(lists, pool[tlast.val[k]].datafiles)
                       = Files(tlast.lists, tlast.pool[tlast.val[k]].datafiles)


\* the species whose maximum radius the last read asked for, and the reading
\* of its minimum temperature in the store the read started from
RMaxRead(s) ==
    /\ last.op = "get"
    /\ last.key = "R_MAX_" \o s
    /\ last.pre[last.key] = Absent
TMinRead(s) ==
    gets(Machine(last.pre, env), <<<<"T_MIN_" \o s, "float">>>>, MaxDepth)
\* the parameters the rule reads on every path once T_MIN is a number
AlwaysNeeded == {"T_CONTACT", "NRAD"}

\* C39: a get of R_MAX_<species> stores '' only when T_MIN_<species> is
\* unavailable or lies below every temperature of the model profile; when
\* T_MIN is there and another parameter the rule needs (T_CONTACT, NRAD) is
\* missing, the get fails with a KeyError and stores no ''.
C39_EmptyOnlyWithoutTMin ==
    \A s \in SpeciesSet :
        RMaxRead(s) =>
            /\ store[last.key] = S("") =>
                   \/ ~ok(TMinRead(s))
                   \/ env.rmax = "alldust"
            /\ (ok(TMinRead(s)) /\ \E p \in AlwaysNeeded : last.pre[p] = Absent) =>
                   /\ last.exc[1] = "KeyError"
                   /\ store[last.key] # S("")


====
